---- MODULE Spec2Model ----
(***************************************************************************)
(* A model of the maze PWA (src/src/app): the generation engine            *)
(* (maze.ts createMaze and its helpers), the max-difficulty sweep and the  *)
(* persisted Shell state (App.tsx), and the animation phase machine        *)
(* (components/MazeView.tsx).                                              *)
(*                                                                         *)
(* Numbers.  TLC integers are 32-bit signed, so a JavaScript uint32 is     *)
(* kept as a little-endian sequence of 16-bit limbs <<lo, hi>>, and the    *)
(* doubles of the engine are kept as exact rationals:                      *)
(*   - rnd() = u / 2^32 is represented by its numerator u (two limbs);     *)
(*   - g, b, tau are hundredths (the sliders' step is 0.01): g = G/100;    *)
(*   - a roulette weight 1 + toward + straight + rnd()*1e-6 is the         *)
(*     natural number (100 + G + Tau) * 10^4 * 2^32 + u, i.e. the weight   *)
(*     in units of 1e-6 / 2^32;                                            *)
(*   - D is kept as the integer 1000 * D (D has three decimals).           *)
(***************************************************************************)
EXTENDS Integers, Sequences, FiniteSets, TLC

(***************************************************************************)
(* Limb arithmetic (base 2^16, little-endian).                             *)
(***************************************************************************)
Base == 65536

\* the 32-bit product of two 16-bit numbers, as <<lo, hi>>
Mul16(a, b) ==
  LET a0 == a % 256
      a1 == a \div 256
      p0 == a0 * b
      p1 == a1 * b
      lo == (p1 % 256) * 256 + (p0 % Base)
  IN  << lo % Base, (p1 \div 256) + (p0 \div Base) + (lo \div Base) >>

Limb(a, i) == IF i <= Len(a) THEN a[i] ELSE 0

MaxOf(m, n) == IF m >= n THEN m ELSE n

RECURSIVE LAddFrom(_, _, _, _, _)
LAddFrom(a, b, i, n, carry) ==
  IF i > n THEN (IF carry = 0 THEN << >> ELSE << carry >>)
  ELSE LET s == Limb(a, i) + Limb(b, i) + carry
       IN  << s % Base >> \o LAddFrom(a, b, i + 1, n, s \div Base)

\* a + b
LAdd(a, b) == LAddFrom(a, b, 1, MaxOf(Len(a), Len(b)), 0)

RECURSIVE LMulSmallFrom(_, _, _, _)
LMulSmallFrom(a, m, i, carry) ==
  IF i > Len(a) THEN (IF carry = 0 THEN << >> ELSE << carry >>)
  ELSE LET p == Mul16(a[i], m)
           s == p[1] + carry
       IN  << s % Base >> \o LMulSmallFrom(a, m, i + 1, p[2] + (s \div Base))

\* a * m for a 16-bit m
LMulSmall(a, m) == LMulSmallFrom(a, m, 1, 0)

Zeros(n) == [i \in 1..n |-> 0]

RECURSIVE LMulFrom(_, _, _)
LMulFrom(a, b, i) ==
  IF i > Len(b) THEN << >>
  ELSE LAdd(Zeros(i - 1) \o LMulSmall(a, b[i]), LMulFrom(a, b, i + 1))

\* a * b
LMul(a, b) == LMulFrom(a, b, 1)

RECURSIVE LCmpFrom(_, _, _)
LCmpFrom(a, b, i) ==
  IF i = 0 THEN 0
  ELSE IF Limb(a, i) < Limb(b, i) THEN -1
  ELSE IF Limb(a, i) > Limb(b, i) THEN 1
  ELSE LCmpFrom(a, b, i - 1)

\* -1, 0, 1 as a < b, a = b, a > b
LCmp(a, b) == LCmpFrom(a, b, MaxOf(Len(a), Len(b)))

LLeq(a, b) == LCmp(a, b) <= 0
LLess(a, b) == LCmp(a, b) < 0

\* a small natural (below 2^31) as limbs
LOfInt(v) == << v % Base, v \div Base >>

(***************************************************************************)
(* Bit operations on 16-bit numbers and 32-bit words.                      *)
(***************************************************************************)
RECURSIVE Xor16(_, _)
Xor16(a, b) ==
  IF a = 0 THEN b
  ELSE IF b = 0 THEN a
  ELSE ((a + b) % 2) + 2 * Xor16(a \div 2, b \div 2)

RECURSIVE Or16(_, _)
Or16(a, b) ==
  IF a = 0 THEN b
  ELSE IF b = 0 THEN a
  ELSE (IF a % 2 = 1 \/ b % 2 = 1 THEN 1 ELSE 0) + 2 * Or16(a \div 2, b \div 2)

Xor32(a, b) == << Xor16(a[1], b[1]), Xor16(a[2], b[2]) >>

\* m | a for a small constant m (below 2^16)
OrSmall32(m, a) == << Or16(m, a[1]), a[2] >>

\* (a + b) mod 2^32: the |0 / >>>0 truncation of a sum
Add32(a, b) ==
  LET lo == a[1] + b[1]
  IN  << lo % Base, (a[2] + b[2] + (lo \div Base)) % Base >>

\* a >>> k for 0 < k < 16
Shr32(a, k) ==
  LET p == 2 ^ k
      q == 2 ^ (16 - k)
  IN  << (a[1] \div p) + (a[2] % p) * q, a[2] \div p >>

\* Math.imul(a, b): the low 32 bits of the product
Imul(a, b) ==
  LET ll == Mul16(a[1], b[1])
      x1 == Mul16(a[2], b[1])
      x2 == Mul16(a[1], b[2])
  IN  << ll[1], (ll[2] + x1[1] + x2[1]) % Base >>

(***************************************************************************)
(* mulberry32 (maze.ts:115).  The state t of one generator; a draw         *)
(* returns the numerator u of rnd() = u / 4294967296.                      *)
(***************************************************************************)
\* 0x6D2B79F5
Weyl == << 31221, 27947 >>

\* let t = seed>>>0
Mulberry32(seed) == << seed % Base, (seed \div Base) % Base >>

\* t += 0x6D2B79F5 (t is only ever read through 32-bit operators)
RndState(t) == Add32(t, Weyl)

\* t ^ t>>>15 times t | 1
Mix1(r) == Imul(Xor32(r, Shr32(r, 15)), OrSmall32(1, r))

\* r ^= r + Math.imul(r ^ r>>>7, r | 61)
Mix2(r) == Xor32(r, Add32(r, Imul(Xor32(r, Shr32(r, 7)), OrSmall32(61, r))))

\* (r ^ r>>>14) >>> 0
Mix3(r) == Xor32(r, Shr32(r, 14))

\* the value the draw that moves the state to t returns
RndValue(t) == Mix3(Mix2(Mix1(t)))

\* the state after k draws, and the k-th draw from state t
RECURSIVE RndSkip(_, _)
RndSkip(t, k) == IF k = 0 THEN t ELSE RndSkip(RndState(t), k - 1)

Draw(t, k) == RndValue(RndSkip(t, k))

(***************************************************************************)
(* State.                                                                  *)
(*                                                                         *)
(* One invocation of createMaze: its parameters, the state t of its        *)
(* generator, the tree grid, the seen set, the stack, treeSteps, the       *)
(* stats, the final grid, braidEdits, the braid loop's cell index and the  *)
(* position in the function body.  The caller: how many invocations it has *)
(* made and what each distinct parameter record returned first.            *)
(***************************************************************************)
VARIABLES params, t, tree, seen, stack, treeSteps, stats, maze, braidEdits,
          bk, pc, ncalls, results

engVars == << params, t, tree, seen, stack, treeSteps, stats, maze, braidEdits,
              bk, pc, ncalls, results >>

(***************************************************************************)
(* The generation engine (maze.ts).  A cell is its four wall flags; a grid *)
(* maps <<x, y>> to a cell.                                                *)
(***************************************************************************)
DIRS ==
  << [dx |-> 1,  dy |-> 0,  a |-> "e", b |-> "w"],
     [dx |-> -1, dy |-> 0,  a |-> "w", b |-> "e"],
     [dx |-> 0,  dy |-> 1,  a |-> "s", b |-> "n"],
     [dx |-> 0,  dy |-> -1, a |-> "n", b |-> "s"] >>

Abs(v) == IF v < 0 THEN -v ELSE v

Cells(W, H) == (0..(W - 1)) \X (0..(H - 1))

\* Array.from(...): every cell fully walled
NewGrid(W, H) == [c \in Cells(W, H) |-> [n |-> 1, s |-> 1, e |-> 1, w |-> 1]]

StartOf(W, H) == << 0, H \div 2 >>
GoalOf(W, H) == << W - 1, H \div 2 >>

\* a bounds test that is off by one on the top row
inbStrict(W, H, cx, cy) == cx >= 0 /\ cx < W /\ cy > 0 /\ cy < H

inb(W, H, cx, cy) == cx >= 0 /\ cx < W /\ cy >= 0 /\ cy < H

\* an opposite-side table that does not flip
oppSame(w) == w

opp(w) == IF w = "n" THEN "s" ELSE IF w = "s" THEN "n" ELSE IF w = "e" THEN "w" ELSE "e"

openDeg(c) == (1 - c.n) + (1 - c.s) + (1 - c.e) + (1 - c.w)

\* the directions whose target is in bounds and unvisited, in DIRS order
Candidates(W, H, visited, cur) ==
  SelectSeq(DIRS, LAMBDA d :
    /\ inb(W, H, cur[1] + d.dx, cur[2] + d.dy)
    /\ << cur[1] + d.dx, cur[2] + d.dy >> \notin visited)

\* 1 + toward + straight + rnd()*1e-6, in units of 1e-6 / 2^32
Weight(cx, cy, prev, goal, G, Tau, d, u) ==
  LET baseDist == Abs(goal[1] - cx) + Abs(goal[2] - cy)
      toward == IF Abs(goal[1] - (cx + d.dx)) + Abs(goal[2] - (cy + d.dy)) < baseDist
                THEN G ELSE 0
      straight == IF prev # << >> /\ d.dx = prev[1] /\ d.dy = prev[2] THEN Tau ELSE 0
  IN  u \o LOfInt((100 + toward + straight) * 10000)

RECURSIVE Roulette(_, _, _, _)
\* the first i with r - weights[0] - ... - weights[i] <= 0, r = rnd() * total
Roulette(weights, rTotal, cum, i) ==
  IF i >= Len(weights) THEN Len(weights)
  ELSE LET c == LAdd(cum, weights[i])
       IN  IF LLeq(rTotal, << 0, 0 >> \o c) THEN i
           ELSE Roulette(weights, rTotal, c, i + 1)

\* let r = rnd() * total, then the roulette walk; u is the draw
Spin(weights, u) ==
  Roulette(weights,
           LMul(u, LAdd(LAdd(weights[1], weights[2]), LAdd(weights[3], weights[4]))),
           << >>, 1)

\* the index in DIRS of the direction chosen; consumes five draws from t
chooseDirWeighted(cx, cy, prev, goal, G, Tau, rs) ==
  Spin([i \in 1..4 |-> Weight(cx, cy, prev, goal, G, Tau, DIRS[i], Draw(rs, i))],
       Draw(rs, 5))

\* (rnd() * n) | 0 and Math.floor(rnd() * n) for a small n
ScaleDraw(u, n) == (u[2] * n + ((u[1] * n) \div Base)) \div Base

\* (a as any)[d.a] = 0; (bcell as any)[d.b] = 0
Carve(grid, from, to, d) ==
  [grid EXCEPT ![from] = [@ EXCEPT ![d.a] = 0], ![to] = [@ EXCEPT ![d.b] = 0]]

\* the cell on top of the stack, and the direction it was entered by
Top(stk) == stk[Len(stk)]

PrevDir(stk) ==
  IF Len(stk) > 1
  THEN << stk[Len(stk)][1] - stk[Len(stk) - 1][1], stk[Len(stk)][2] - stk[Len(stk) - 1][2] >>
  ELSE << >>

\* carve from cur in direction d, record the step, push and mark the target
Push(s, cur, d, tNew) ==
  [t |-> tNew,
   tree |-> Carve(s.tree, cur, << cur[1] + d.dx, cur[2] + d.dy >>, d),
   treeSteps |-> Append(s.treeSteps, << cur[1], cur[2], cur[1] + d.dx, cur[2] + d.dy >>),
   stack |-> Append(s.stack, << cur[1] + d.dx, cur[2] + d.dy >>),
   seen |-> s.seen \cup {<< cur[1] + d.dx, cur[2] + d.dy >>}]

\* an advance that tests the bounds but not the seen set
AdvanceUnseen(s, p, cur, candidates, d, t5) ==
  IF ~inb(p.width, p.height, cur[1] + d.dx, cur[2] + d.dy)
  THEN Push(s, cur, candidates[ScaleDraw(Draw(t5, 1), Len(candidates)) + 1],
            RndSkip(t5, 1))
  ELSE Push(s, cur, d, t5)

\* the weighted choice d, or a uniform candidate when d is not usable
Advance(s, p, cur, candidates, d, t5) ==
  IF ~inb(p.width, p.height, cur[1] + d.dx, cur[2] + d.dy)
     \/ << cur[1] + d.dx, cur[2] + d.dy >> \in s.seen
  THEN Push(s, cur, candidates[ScaleDraw(Draw(t5, 1), Len(candidates)) + 1],
            RndSkip(t5, 1))
  ELSE Push(s, cur, d, t5)

\* a choice that is handed b where tau belongs
ChooseByB(s, p, cur, candidates) ==
  Advance(s, p, cur, candidates,
          DIRS[chooseDirWeighted(cur[1], cur[2], PrevDir(s.stack),
                                 GoalOf(p.width, p.height), p.g, p.b, s.t)],
          RndSkip(s.t, 5))

\* with at least one candidate: choose, then advance
Choose(s, p, cur, candidates) ==
  Advance(s, p, cur, candidates,
          DIRS[chooseDirWeighted(cur[1], cur[2], PrevDir(s.stack),
                                 GoalOf(p.width, p.height), p.g, p.tau, s.t)],
          RndSkip(s.t, 5))

\* one iteration of the while (stack.length) loop on the engine state s
DfsIter(s, p) ==
  IF Len(Candidates(p.width, p.height, s.seen, Top(s.stack))) = 0
  THEN [s EXCEPT !.stack = SubSeq(s.stack, 1, Len(s.stack) - 1)]
  ELSE Choose(s, p, Top(s.stack), Candidates(p.width, p.height, s.seen, Top(s.stack)))

\* an entry that keeps the generator of the previous invocation
DfsStartShared(p) ==
  [t |-> t,
   tree |-> NewGrid(p.width, p.height),
   treeSteps |-> << >>,
   stack |-> << StartOf(p.width, p.height) >>,
   seen |-> {StartOf(p.width, p.height)}]

\* the engine state when the loop is entered (maze.ts:26-43)
DfsStart(p) ==
  [t |-> Mulberry32(p.seed),
   tree |-> NewGrid(p.width, p.height),
   treeSteps |-> << >>,
   stack |-> << StartOf(p.width, p.height) >>,
   seen |-> {StartOf(p.width, p.height)}]

RECURSIVE DfsRun(_, _)
\* while (stack.length) { ... }
DfsRun(s, p) == IF Len(s.stack) = 0 THEN s ELSE DfsRun(DfsIter(s, p), p)

(***************************************************************************)
(* computeTreeStats (maze.ts:175-208).                                     *)
(***************************************************************************)
\* the number of fractional bits the logarithm is computed to
LogBits == 20

RECURSIVE FloorLog2(_)
FloorLog2(n) == IF n < 2 THEN 0 ELSE 1 + FloorLog2(n \div 2)

\* 2^e as limbs, 16 <= e <= 32
Pow2Limbs(e) == IF e = 32 THEN << 0, 0, 1 >> ELSE << 0, 2 ^ (e - 16) >>

\* a \div 2
LHalf(a) == [i \in 1..Len(a) |-> (a[i] \div 2) + (Limb(a, i + 1) % 2) * 32768]

RECURSIVE Log2Bits(_, _, _)
\* the first k binary digits of log2(m) for a mantissa m in [1, 2), m given
\* as m * 2^32: square, and halve whenever the square reaches 2
Log2Bits(m, k, acc) ==
  IF k = 0 THEN acc
  ELSE LET sq == LMul(m, m)
           m2 == SubSeq(sq, 3, Len(sq))
       IN  IF Limb(m2, 3) >= 2
           THEN Log2Bits(LHalf(m2), k - 1, 2 * acc + 1)
           ELSE Log2Bits(m2, k - 1, 2 * acc)

\* Math.log2(n): << integer part, fraction * 2^LogBits >>
Log2(n) ==
  LET ip == FloorLog2(n)
      m == LMul(LOfInt(n), Pow2Limbs(32 - ip))
  IN  << ip, Log2Bits(m, LogBits, 0) >>

\* the earlier score (L*(1+T) + J*0.5 + E*0.3) / 20, times 1000
DifficultyLegacy(L, turns, J, E) == 50 * L + 50 * turns + 25 * J + 15 * E

\* +(0.7*log2(max(2,L)) + 0.8*T + 0.5*(J/max(1,L)) + 0.3*(E/max(1,L))).toFixed(3),
\* times 1000
Difficulty(L, turns, J, E) ==
  LET lg == Log2(MaxOf(2, L))
      den == MaxOf(1, L)
      one == 2 ^ LogBits
      num == 800 * turns + 500 * J + 300 * E
      frac == 700 * lg[2] + ((num % den) * one) \div den
  IN  700 * lg[1] + (num \div den) + ((frac + (one \div 2)) \div one)

\* a count that takes a change on each axis as a turn of its own
RECURSIVE CountTurnsPerAxis(_, _)
CountTurnsPerAxis(steps, i) ==
  IF i > Len(steps) THEN 0
  ELSE LET a == steps[i - 1]
           b == steps[i]
       IN  (IF a[3] - a[1] # b[3] - b[1] THEN 1 ELSE 0)
           + (IF a[4] - a[2] # b[4] - b[2] THEN 1 ELSE 0)
           + CountTurnsPerAxis(steps, i + 1)

RECURSIVE CountTurns(_, _)
CountTurns(steps, i) ==
  IF i > Len(steps) THEN 0
  ELSE LET a == steps[i - 1]
           b == steps[i]
       IN  (IF a[3] - a[1] # b[3] - b[1] \/ a[4] - a[2] # b[4] - b[2] THEN 1 ELSE 0)
           + CountTurns(steps, i + 1)

computeTreeStats(grid, steps) ==
  LET J == Cardinality({c \in DOMAIN grid : openDeg(grid[c]) >= 3})
      E == Cardinality({c \in DOMAIN grid : openDeg(grid[c]) = 1})
      L == Len(steps) + 1
      turns == CountTurns(steps, 2)
  IN  [L |-> L, T |-> [num |-> turns, den |-> L], J |-> J, E |-> E,
       D |-> Difficulty(L, turns, J, E)]

(***************************************************************************)
(* The braid pass (maze.ts:85-106) on the state m = [t, maze, braidEdits]. *)
(***************************************************************************)
\* rnd() < b, b = B / 100
DrawBelow(u, B) == LLess(LMulSmall(u, 100), << 0, 0, B >>)

WallDelta(w) ==
  << IF w = "e" THEN 1 ELSE IF w = "w" THEN -1 ELSE 0,
     IF w = "s" THEN 1 ELSE IF w = "n" THEN -1 ELSE 0 >>

\* const [nx, ny] = ...; if (inb(nx, ny)) open both sides; one more draw taken
BraidOpen(m, p, cx, cy, w, tNew) ==
  IF ~inb(p.width, p.height, cx + WallDelta(w)[1], cy + WallDelta(w)[2])
  THEN [m EXCEPT !.t = tNew]
  ELSE [t |-> tNew,
        maze |-> [m.maze EXCEPT
                    ![<< cx, cy >>] = [@ EXCEPT ![w] = 0],
                    ![<< cx + WallDelta(w)[1], cy + WallDelta(w)[2] >>] =
                       [@ EXCEPT ![opp(w)] = 0]],
        braidEdits |-> Append(m.braidEdits,
                              << cx, cy, cx + WallDelta(w)[1], cy + WallDelta(w)[2] >>)]

\* a dead end that passed rnd() < b: pick one of its closed walls
BraidPick(m, p, cx, cy, walls, t1) ==
  IF Len(walls) = 0 THEN [m EXCEPT !.t = t1]
  ELSE BraidOpen(m, p, cx, cy, walls[ScaleDraw(Draw(t1, 1), Len(walls)) + 1],
                 RndSkip(t1, 1))

\* the closed walls of cell c, in the order n, s, e, w
ClosedWalls(c) == SelectSeq(<< "n", "s", "e", "w" >>, LAMBDA k : c[k] = 1)

\* a dead end: if (rnd() < b) pick a closed wall and open it
BraidDeadEnd(m, p, cx, cy) ==
  IF ~DrawBelow(Draw(m.t, 1), p.b) THEN [m EXCEPT !.t = RndSkip(m.t, 1)]
  ELSE BraidPick(m, p, cx, cy, ClosedWalls(m.maze[<< cx, cy >>]), RndSkip(m.t, 1))

\* the body of the braid loop for the cell at <<cx, cy>>
BraidCell(m, p, cx, cy) ==
  IF openDeg(m.maze[<< cx, cy >>]) # 1 THEN m
  ELSE BraidDeadEnd(m, p, cx, cy)

RECURSIVE BraidFrom(_, _, _)
\* for (y...) for (x...) from the k-th cell in row-major order
BraidFrom(m, p, k) ==
  IF k >= p.width * p.height THEN m
  ELSE IF openDeg(m.maze[<< k % p.width, k \div p.width >>]) # 1
  THEN BraidFrom(m, p, k + 1)
  ELSE BraidFrom(BraidDeadEnd(m, p, k % p.width, k \div p.width), p, k + 1)

\* maze.ts:85-110: the clone, the braid pass when b > 0, the returned record
Braided(p, m0) ==
  IF p.b > 0 THEN BraidFrom(m0, p, 0) ELSE m0

Returns(p, s, m) ==
  [maze |-> m.maze, treeSteps |-> s.treeSteps, braidEdits |-> m.braidEdits,
   stats |-> computeTreeStats(s.tree, s.treeSteps),
   start |-> StartOf(p.width, p.height), goal |-> GoalOf(p.width, p.height)]

AfterDfs(p, s) ==
  Returns(p, s, Braided(p, [t |-> s.t, maze |-> s.tree, braidEdits |-> << >>]))

\* createMaze as a function of its parameters
createMaze(p) == AfterDfs(p, DfsRun(DfsStart(p), p))

(***************************************************************************)
(* The Shell (App.tsx) and the Maze View (components/MazeView.tsx): state. *)
(*                                                                         *)
(* The Shell's parameters and UI state, its saved mazes, the two           *)
(* localStorage items, the viewport's media query; the sweep's loop state; *)
(* the Maze View's phase and its pending timers.  g, b and tau are in      *)
(* hundredths.  held is the ten Settings fields as the Shell held them     *)
(* when it last wrote the record; lastOp names the handler that ran last.  *)
(***************************************************************************)
VARIABLES seed, width, height, g, b, tau, controlsOpen, lockSize,
          animateDFS, dfsSegMs, saved, selectedId,
          settingsItem, savedItem, mqMatches, held, lastOp,
          storageFails, uncaught, crashed

storeVars == << storageFails, uncaught, crashed >>

shellVars == << seed, width, height, g, b, tau, controlsOpen, lockSize,
                animateDFS, dfsSegMs, saved, selectedId,
                settingsItem, savedItem, mqMatches, held, lastOp, storeVars >>

VARIABLES best, swI, swPc, swCalls, nsweeps

sweepVars == << best, swI, swPc, swCalls, nsweeps >>

VARIABLES phase, enabled, segMs, lingerMs, stepsCount, timers, lastFire

phaseVars == << phase, enabled, segMs, lingerMs, stepsCount, timers, lastFire >>

VARIABLES constrained, printing, tasks, listeners, frames, events, nflows, nprints, pcalls

printVars == << constrained, printing, tasks, listeners, frames, events, nflows, nprints,
               pcalls >>

VARIABLES ovProps, ovMounted, doneRef, ovTimers, anim, notified, nchanges

overlayVars == << ovProps, ovMounted, doneRef, ovTimers, anim, notified, nchanges >>

VARIABLES deferred, canInstall, awaiting, replays, nsignals, ninstalls

installVars == << deferred, canInstall, awaiting, replays, nsignals, ninstalls >>

VARIABLES vparams, hideWalls, memo, lastSvg, lastStats, svgEmits, statsEmits, nviews, mazes

viewVars == << vparams, hideWalls, memo, lastSvg, lastStats, svgEmits, statsEmits, nviews,
              mazes >>

pageVars == << printVars, overlayVars, installVars, viewVars >>

vars == << engVars, shellVars, sweepVars, phaseVars, pageVars >>

(***************************************************************************)
(* createMaze step by step, under a caller.  The regression test           *)
(* (tests/stats.spec.ts) calls it once with fixed parameters; the          *)
(* application (MazeView's memo, the sweep) calls it again and again with  *)
(* parameters that differ in b or in the seed.                             *)
(***************************************************************************)
MaxDim == 3
MaxCalls == 3

Dims == 1..MaxDim
Seeds == {42, 7}
BVals == {0, 15, 50}

MazeParams(W, H, sd, G, B, Tau) ==
  [width |-> W, height |-> H, seed |-> sd, g |-> G, b |-> B, tau |-> Tau]

\* createMaze({ width:19, height:19, seed:42, g:0.3, b:0.15, tau:0.4 })
TestParams == MazeParams(19, 19, 42, 30, 15, 40)

\* what the application's first call may pass: any dimensions, b = 0.5
FirstParams == { MazeParams(W, H, 42, 30, 50, 40) : W \in Dims, H \in Dims }

\* what a later call may pass: the same again, another b, or another seed
LaterParams(p) ==
  { [p EXCEPT !.b = B] : B \in BVals } \cup { [p EXCEPT !.seed = sd] : sd \in Seeds }

NoStats == [L |-> 0, T |-> [num |-> 0, den |-> 1], J |-> 0, E |-> 0, D |-> 0]

EngInit ==
  /\ params = MazeParams(1, 1, 0, 0, 0, 0)
  /\ t = << 0, 0 >>
  /\ tree = NewGrid(1, 1)
  /\ seen = {}
  /\ stack = << >>
  /\ treeSteps = << >>
  /\ stats = NoStats
  /\ maze = NewGrid(1, 1)
  /\ braidEdits = << >>
  /\ bk = 0
  /\ pc = "idle"
  /\ ncalls = 0
  /\ results = << >>

\* maze.ts:24-43: the invocation's own generator, grid, stack and seen set
Enter(p) ==
  LET s == DfsStart(p)
  IN  /\ params' = p
      /\ t' = s.t
      /\ tree' = s.tree
      /\ seen' = s.seen
      /\ stack' = s.stack
      /\ treeSteps' = s.treeSteps
      /\ stats' = NoStats
      /\ maze' = NewGrid(1, 1)
      /\ braidEdits' = << >>
      /\ bk' = 0
      /\ pc' = "dfs"
      /\ ncalls' = ncalls + 1
      /\ UNCHANGED << results, shellVars, sweepVars, phaseVars, pageVars >>

\* tests/stats.spec.ts:4
TestCall ==
  /\ pc = "idle"
  /\ ncalls = 0
  /\ Enter(TestParams)

\* MazeView.tsx:46, App.tsx:209
Call ==
  /\ pc \in {"idle", "ret"}
  /\ ncalls < MaxCalls
  /\ params # TestParams
  /\ \E p \in (IF ncalls = 0 THEN FirstParams ELSE LaterParams(params)) : Enter(p)

\* maze.ts:45-79: one iteration of the loop
DfsStep ==
  /\ pc = "dfs"
  /\ Len(stack) > 0
  /\ LET s == DfsIter([t |-> t, tree |-> tree, treeSteps |-> treeSteps,
                       stack |-> stack, seen |-> seen], params)
     IN  /\ t' = s.t
         /\ tree' = s.tree
         /\ treeSteps' = s.treeSteps
         /\ stack' = s.stack
         /\ seen' = s.seen
  /\ UNCHANGED << params, stats, maze, braidEdits, bk, pc, ncalls, results >>
  /\ UNCHANGED << shellVars, sweepVars, phaseVars, pageVars >>

\* maze.ts:82-86: the stats of the tree, then the clone that is braided
StatsStep ==
  /\ pc = "dfs"
  /\ Len(stack) = 0
  /\ stats' = computeTreeStats(tree, treeSteps)
  /\ maze' = tree
  /\ braidEdits' = << >>
  /\ bk' = 0
  /\ pc' = IF params.b > 0 THEN "braid" ELSE "return"
  /\ UNCHANGED << params, t, tree, seen, stack, treeSteps, ncalls, results >>
  /\ UNCHANGED << shellVars, sweepVars, phaseVars, pageVars >>

\* maze.ts:88-105: the loop body for one cell, in row-major order
BraidStep ==
  /\ pc = "braid"
  /\ bk < params.width * params.height
  /\ LET m == BraidCell([t |-> t, maze |-> maze, braidEdits |-> braidEdits], params,
                        bk % params.width, bk \div params.width)
     IN  /\ t' = m.t
         /\ maze' = m.maze
         /\ braidEdits' = m.braidEdits
  /\ bk' = bk + 1
  /\ UNCHANGED << params, tree, seen, stack, treeSteps, stats, pc, ncalls, results >>
  /\ UNCHANGED << shellVars, sweepVars, phaseVars, pageVars >>

Result == [maze |-> maze, treeSteps |-> treeSteps, braidEdits |-> braidEdits,
           stats |-> stats]

\* maze.ts:110; the caller keeps what each parameter record returned first
Return ==
  /\ \/ pc = "return"
     \/ pc = "braid" /\ bk = params.width * params.height
  /\ pc' = "ret"
  /\ results' = IF params \in DOMAIN results THEN results
                ELSE (params :> Result) @@ results
  /\ UNCHANGED << params, t, tree, seen, stack, treeSteps, stats, maze, braidEdits,
                  bk, ncalls >>
  /\ UNCHANGED << shellVars, sweepVars, phaseVars, pageVars >>

EngNext == TestCall \/ Call \/ DfsStep \/ StatsStep \/ BraidStep \/ Return

(***************************************************************************)
(* The Shell's persistence (App.tsx).  A localStorage item is modelled by  *)
(* the JSON text it holds: an object is the sequence of its << key, text >>*)
(* pairs in insertion order, a text is a sequence of characters, and an    *)
(* array is the sequence of its elements' texts.  A saved entry's params   *)
(* object is flattened into the entry's pairs.                             *)
(***************************************************************************)
DigitChars == << "0", "1", "2", "3", "4", "5", "6", "7", "8", "9" >>

RECURSIVE NumText(_)
\* JSON.stringify of a natural number
NumText(n) ==
  IF n < 10 THEN << DigitChars[n + 1] >>
  ELSE NumText(n \div 10) \o << DigitChars[(n % 10) + 1] >>

DigitOf(ch) == (CHOOSE d \in 1..10 : DigitChars[d] = ch) - 1

RECURSIVE TextNum(_)
\* JSON.parse of the text of a natural number
TextNum(txt) ==
  IF Len(txt) = 0 THEN 0
  ELSE 10 * TextNum(SubSeq(txt, 1, Len(txt) - 1)) + DigitOf(txt[Len(txt)])

BoolText(v) == IF v THEN << "t", "r", "u", "e" >> ELSE << "f", "a", "l", "s", "e" >>

TextBool(txt) == txt = << "t", "r", "u", "e" >>

\* localStorage.getItem of a key that was never set
NoItem == << >>

\* an item whose text is not JSON, and one whose text is the JSON null
NotJson == << << "not json", << >> >> >>
JsonNull == << << "null", << >> >> >>

\* try { JSON.parse(getItem(SETTINGS_KEY) || "null") } catch { null }, as the
\* object whose keys persisted?.k reads
persisted(item) == IF item \in {NotJson, JsonNull} THEN NoItem ELSE item

HasKey(item, k) == \E i \in 1..Len(item) : item[i][1] = k

TextAt(item, k) == item[CHOOSE i \in 1..Len(item) : item[i][1] = k][2]

\* persisted?.k ?? dflt
NumOr(item, k, dflt) == IF HasKey(item, k) THEN TextNum(TextAt(item, k)) ELSE dflt

BoolOr(item, k, dflt) == IF HasKey(item, k) THEN TextBool(TextAt(item, k)) ELSE dflt

\* JSON.stringify({ seed,width,height,g,b,tau,controlsOpen,lockSize })
SettingsText(r) ==
  << << "seed", NumText(r.seed) >>, << "width", NumText(r.width) >>,
     << "height", NumText(r.height) >>, << "g", NumText(r.g) >>,
     << "b", NumText(r.b) >>, << "tau", NumText(r.tau) >>,
     << "controlsOpen", BoolText(r.controlsOpen) >>,
     << "lockSize", BoolText(r.lockSize) >> >>

\* the state useState gives a Shell constructed against the settings item
useStateInit(item) ==
  [seed |-> NumOr(item, "seed", 42),
   width |-> NumOr(item, "width", 19),
   height |-> NumOr(item, "height", 19),
   g |-> NumOr(item, "g", 30),
   b |-> NumOr(item, "b", 15),
   tau |-> NumOr(item, "tau", 40),
   controlsOpen |-> BoolOr(item, "controlsOpen", TRUE),
   lockSize |-> BoolOr(item, "lockSize", FALSE),
   animateDFS |-> TRUE,
   dfsSegMs |-> 35]

\* the media-query effect at mount: apply()
MountEffects(st, mq) == [st EXCEPT !.controlsOpen = ~mq]

EntryText(e) ==
  << << "id", << e.id >> >>, << "name", NumText(e.name) >>,
     << "width", NumText(e.params.width) >>, << "height", NumText(e.params.height) >>,
     << "seed", NumText(e.params.seed) >>, << "g", NumText(e.params.g) >>,
     << "b", NumText(e.params.b) >>, << "tau", NumText(e.params.tau) >> >>

TextEntry(x) ==
  [id |-> TextAt(x, "id")[1],
   name |-> TextNum(TextAt(x, "name")),
   params |-> [width |-> TextNum(TextAt(x, "width")),
               height |-> TextNum(TextAt(x, "height")),
               seed |-> TextNum(TextAt(x, "seed")),
               g |-> TextNum(TextAt(x, "g")),
               b |-> TextNum(TextAt(x, "b")),
               tau |-> TextNum(TextAt(x, "tau"))]]

\* JSON.stringify(list)
SavedText(list) == [i \in 1..Len(list) |-> EntryText(list[i])]

\* the saved-mazes item holding text that is not JSON, or the JSON null
SavedNotJson == << NotJson >>
SavedNull == << JsonNull >>

\* whether JSON.parse of the item's text is an array
ParsesToList(item) == item # SavedNull

\* try { raw ? JSON.parse(raw) : [] } catch { [] }, where it is a list
loadSaved(item) ==
  IF item \in {SavedNotJson, SavedNull} THEN << >>
  ELSE [i \in 1..Len(item) |-> TextEntry(item[i])]

\* w%2 ? w : w+1
Odd(v) == IF v % 2 = 1 THEN v ELSE v + 1

\* setWidth and setHeight on the pair of dimensions, lock = lockSize
setWidth(dims, v, lock) ==
  [width |-> Odd(v), height |-> IF lock THEN Odd(v) ELSE dims.height]

setHeight(dims, v, lock) ==
  [width |-> IF lock THEN Odd(v) ELSE dims.width, height |-> Odd(v)]

(***************************************************************************)
(* The Shell's handlers.  Each ends with the persist effect, which writes  *)
(* the record when one of its eight dependencies has changed.              *)
(***************************************************************************)
MaxSeed == 43
MaxSaved == 2

SizeChoices == {7, 19}
GChoices == {30, 60}
BChoices == {0, 15}
TauChoices == {40, 80}
SegChoices == {10, 35}
Ids == {"a", "b"}
NoId == "none"

Settings ==
  [seed |-> seed, width |-> width, height |-> height, g |-> g, b |-> b, tau |-> tau,
   controlsOpen |-> controlsOpen, lockSize |-> lockSize]

Held ==
  [seed |-> seed, width |-> width, height |-> height, g |-> g, b |-> b, tau |-> tau,
   controlsOpen |-> controlsOpen, lockSize |-> lockSize,
   animateDFS |-> animateDFS, dfsSegMs |-> dfsSegMs]

\* the Shell is rendered: no render has thrown
Mounted == ~crashed

\* App.tsx:168-172, after a handler
Persist ==
  IF Settings' # Settings /\ ~storageFails
  THEN settingsItem' = SettingsText(Settings') /\ held' = Held'
  ELSE UNCHANGED << settingsItem, held >>

\* the Shell as first constructed: no items in the store
ShellInit ==
  /\ crashed = FALSE
  /\ storageFails = FALSE
  /\ uncaught = FALSE
  /\ mqMatches = FALSE
  /\ seed = MountEffects(useStateInit(NoItem), mqMatches).seed
  /\ width = MountEffects(useStateInit(NoItem), mqMatches).width
  /\ height = MountEffects(useStateInit(NoItem), mqMatches).height
  /\ g = MountEffects(useStateInit(NoItem), mqMatches).g
  /\ b = MountEffects(useStateInit(NoItem), mqMatches).b
  /\ tau = MountEffects(useStateInit(NoItem), mqMatches).tau
  /\ controlsOpen = MountEffects(useStateInit(NoItem), mqMatches).controlsOpen
  /\ lockSize = MountEffects(useStateInit(NoItem), mqMatches).lockSize
  /\ animateDFS = MountEffects(useStateInit(NoItem), mqMatches).animateDFS
  /\ dfsSegMs = MountEffects(useStateInit(NoItem), mqMatches).dfsSegMs
  /\ saved = loadSaved(NoItem)
  /\ selectedId = NoId
  /\ settingsItem = SettingsText(Settings)
  /\ savedItem = NoItem
  /\ held = Held
  /\ lastOp = "init"

others == << engVars, sweepVars, phaseVars, pageVars >>
savedVars == << saved, selectedId, savedItem >>

\* onNew: setSeed(s => s + 1)
newMaze ==
  /\ seed < MaxSeed
  /\ seed' = seed + 1
  /\ UNCHANGED << width, height, g, b, tau, controlsOpen, lockSize, animateDFS,
                  dfsSegMs, savedVars, mqMatches >>
  /\ Persist
  /\ lastOp' = "edit"
  /\ Mounted
  /\ UNCHANGED << others, storeVars >>

\* the width range input: setWidth(parseInt(e.target.value))
WidthSlider ==
  /\ \E v \in SizeChoices :
       /\ width' = setWidth([width |-> width, height |-> height], v, lockSize).width
       /\ height' = setWidth([width |-> width, height |-> height], v, lockSize).height
  /\ UNCHANGED << seed, g, b, tau, controlsOpen, lockSize, animateDFS, dfsSegMs,
                  savedVars, mqMatches >>
  /\ Persist
  /\ lastOp' = "edit"
  /\ Mounted
  /\ UNCHANGED << others, storeVars >>

\* the height range input, disabled while lockSize
HeightSlider ==
  /\ ~lockSize
  /\ \E v \in SizeChoices :
       /\ width' = setHeight([width |-> width, height |-> height], v, lockSize).width
       /\ height' = setHeight([width |-> width, height |-> height], v, lockSize).height
  /\ UNCHANGED << seed, g, b, tau, controlsOpen, lockSize, animateDFS, dfsSegMs,
                  savedVars, mqMatches >>
  /\ Persist
  /\ lastOp' = "edit"
  /\ Mounted
  /\ UNCHANGED << others, storeVars >>

GSlider ==
  /\ \E v \in GChoices : g' = v
  /\ UNCHANGED << seed, width, height, b, tau, controlsOpen, lockSize, animateDFS,
                  dfsSegMs, savedVars, mqMatches >>
  /\ Persist
  /\ lastOp' = "edit"
  /\ Mounted
  /\ UNCHANGED << others, storeVars >>

BSlider ==
  /\ \E v \in BChoices : b' = v
  /\ UNCHANGED << seed, width, height, g, tau, controlsOpen, lockSize, animateDFS,
                  dfsSegMs, savedVars, mqMatches >>
  /\ Persist
  /\ lastOp' = "edit"
  /\ Mounted
  /\ UNCHANGED << others, storeVars >>

TauSlider ==
  /\ \E v \in TauChoices : tau' = v
  /\ UNCHANGED << seed, width, height, g, b, controlsOpen, lockSize, animateDFS,
                  dfsSegMs, savedVars, mqMatches >>
  /\ Persist
  /\ lastOp' = "edit"
  /\ Mounted
  /\ UNCHANGED << others, storeVars >>

\* the header button: setControlsOpen(v => !v)
ToggleControls ==
  /\ controlsOpen' = ~controlsOpen
  /\ UNCHANGED << seed, width, height, g, b, tau, lockSize, animateDFS, dfsSegMs,
                  savedVars, mqMatches >>
  /\ Persist
  /\ lastOp' = "edit"
  /\ Mounted
  /\ UNCHANGED << others, storeVars >>

\* onMinimize: setControlsOpen(false)
Minimize ==
  /\ controlsOpen
  /\ controlsOpen' = FALSE
  /\ UNCHANGED << seed, width, height, g, b, tau, lockSize, animateDFS, dfsSegMs,
                  savedVars, mqMatches >>
  /\ Persist
  /\ lastOp' = "edit"
  /\ Mounted
  /\ UNCHANGED << others, storeVars >>

\* onGear, shown when isMobile && !controlsOpen: setControlsOpen(true)
Gear ==
  /\ mqMatches /\ ~controlsOpen
  /\ controlsOpen' = TRUE
  /\ UNCHANGED << seed, width, height, g, b, tau, lockSize, animateDFS, dfsSegMs,
                  savedVars, mqMatches >>
  /\ Persist
  /\ lastOp' = "edit"
  /\ Mounted
  /\ UNCHANGED << others, storeVars >>

\* the lock checkbox: setLockSize(e.target.checked)
LockToggle ==
  /\ lockSize' = ~lockSize
  /\ UNCHANGED << seed, width, height, g, b, tau, controlsOpen, animateDFS, dfsSegMs,
                  savedVars, mqMatches >>
  /\ Persist
  /\ lastOp' = "edit"
  /\ Mounted
  /\ UNCHANGED << others, storeVars >>

\* the animate checkbox: setAnimateDFS(e.target.checked)
AnimateToggle ==
  /\ animateDFS' = ~animateDFS
  /\ UNCHANGED << seed, width, height, g, b, tau, controlsOpen, lockSize, dfsSegMs,
                  savedVars, mqMatches >>
  /\ Persist
  /\ lastOp' = "edit"
  /\ Mounted
  /\ UNCHANGED << others, storeVars >>

\* the segment speed range input, disabled while !animateDFS
SegSlider ==
  /\ animateDFS
  /\ \E v \in SegChoices : dfsSegMs' = v
  /\ UNCHANGED << seed, width, height, g, b, tau, controlsOpen, lockSize, animateDFS,
                  savedVars, mqMatches >>
  /\ Persist
  /\ lastOp' = "edit"
  /\ Mounted
  /\ UNCHANGED << others, storeVars >>

\* the media query's change event: apply()
MqChange ==
  /\ mqMatches' = ~mqMatches
  /\ controlsOpen' = ~mqMatches'
  /\ UNCHANGED << seed, width, height, g, b, tau, lockSize, animateDFS, dfsSegMs,
                  savedVars >>
  /\ Persist
  /\ lastOp' = "edit"
  /\ Mounted
  /\ UNCHANGED << others, storeVars >>

SavedIds(list) == {list[i].id : i \in 1..Len(list)}

\* saved.find(m => m.id === id)
Find(list, id) == list[CHOOSE i \in 1..Len(list) : list[i].id = id]

\* a filter that drops the first entry of the list
WithoutFirst(list, id) == Tail(list)

\* saved.filter(m => m.id !== id)
Without(list, id) == SelectSeq(list, LAMBDA e : e.id # id)

\* localStorage.setItem(STORAGE_KEY, JSON.stringify(list)), which throws when
\* the store refuses the write: the rest of the handler is not run
saveAll(list) ==
  IF storageFails
  THEN savedItem' = savedItem /\ uncaught' = TRUE
  ELSE savedItem' = SavedText(list) /\ uncaught' = uncaught

\* handleSave with uid() drawn from ids, while fewer than n entries are held
handleSaveOf(ids, n) ==
  /\ Len(saved) < n
  /\ \E id \in ids \ SavedIds(saved) :
       /\ saved' = Append(saved,
                          [id |-> id, name |-> Len(saved) + 1,
                           params |-> [width |-> width, height |-> height, seed |-> seed,
                                       g |-> g, b |-> b, tau |-> tau]])
       /\ selectedId' = IF storageFails THEN selectedId ELSE id
  /\ saveAll(saved')
  /\ UNCHANGED << seed, width, height, g, b, tau, controlsOpen, lockSize, animateDFS,
                  dfsSegMs, mqMatches >>
  /\ Persist
  /\ lastOp' = "save"
  /\ Mounted
  /\ UNCHANGED << others, storageFails, crashed >>

handleSave == handleSaveOf(Ids, MaxSaved)

\* the six setters in the order of App.tsx:136-141, on the entry found
LoadEntry(e) ==
  /\ width' = setHeight(setWidth([width |-> width, height |-> height],
                                 e.params.width, lockSize),
                        e.params.height, lockSize).width
  /\ height' = setHeight(setWidth([width |-> width, height |-> height],
                                  e.params.width, lockSize),
                         e.params.height, lockSize).height
  /\ seed' = e.params.seed
  /\ g' = e.params.g
  /\ b' = e.params.b
  /\ tau' = e.params.tau
  /\ selectedId' = e.id

handleLoad ==
  /\ \E id \in SavedIds(saved) : LoadEntry(Find(saved, id))
  /\ UNCHANGED << controlsOpen, lockSize, animateDFS, dfsSegMs, saved, savedItem,
                  mqMatches >>
  /\ Persist
  /\ lastOp' = "load"
  /\ Mounted
  /\ UNCHANGED << others, storeVars >>

handleDelete ==
  /\ \E id \in SavedIds(saved) :
       /\ saved' = Without(saved, id)
       /\ selectedId' = IF selectedId = id /\ ~storageFails THEN NoId ELSE selectedId
  /\ saveAll(saved')
  /\ UNCHANGED << seed, width, height, g, b, tau, controlsOpen, lockSize, animateDFS,
                  dfsSegMs, mqMatches >>
  /\ Persist
  /\ lastOp' = "delete"
  /\ Mounted
  /\ UNCHANGED << others, storageFails, crashed >>

\* a Shell constructed against the store: useState from the items, then the
\* mount effects (the media query's apply(), the persist effect)
Construct(item) ==
  /\ seed' = MountEffects(useStateInit(persisted(item)), mqMatches).seed
  /\ width' = MountEffects(useStateInit(persisted(item)), mqMatches).width
  /\ height' = MountEffects(useStateInit(persisted(item)), mqMatches).height
  /\ g' = MountEffects(useStateInit(persisted(item)), mqMatches).g
  /\ b' = MountEffects(useStateInit(persisted(item)), mqMatches).b
  /\ tau' = MountEffects(useStateInit(persisted(item)), mqMatches).tau
  /\ controlsOpen' = MountEffects(useStateInit(persisted(item)), mqMatches).controlsOpen
  /\ lockSize' = MountEffects(useStateInit(persisted(item)), mqMatches).lockSize
  /\ animateDFS' = MountEffects(useStateInit(persisted(item)), mqMatches).animateDFS
  /\ dfsSegMs' = MountEffects(useStateInit(persisted(item)), mqMatches).dfsSegMs

\* the page is loaded again
Remount ==
  /\ crashed' = ~ParsesToList(savedItem)
  /\ Construct(settingsItem)
  /\ saved' = loadSaved(savedItem)
  /\ selectedId' = NoId
  /\ settingsItem' = (IF storageFails \/ crashed' THEN settingsItem
                       ELSE SettingsText(Settings'))
  /\ held' = (IF storageFails \/ crashed' THEN held ELSE Held')
  /\ UNCHANGED << savedItem, mqMatches >>
  /\ lastOp' = "reload"
  /\ uncaught' = FALSE
  /\ UNCHANGED << others, storageFails >>

\* the store's items are replaced from outside the Shell: removed, or set to
\* text the Shell did not write
StoreCorrupted ==
  /\ \E st \in {NoItem, NotJson, JsonNull}, sv \in {NoItem, SavedNotJson, SavedNull} :
       /\ settingsItem' = st
       /\ savedItem' = sv
  /\ UNCHANGED << seed, width, height, g, b, tau, controlsOpen, lockSize, animateDFS,
                  dfsSegMs, saved, selectedId, mqMatches, held, lastOp, storeVars >>
  /\ UNCHANGED others

CorruptNext ==
  \/ newMaze \/ handleSave \/ handleLoad \/ handleDelete \/ StoreCorrupted \/ Remount

\* the store starts or stops refusing writes (quota exceeded, storage disabled)
StorageChange ==
  /\ storageFails' = ~storageFails
  /\ UNCHANGED << seed, width, height, g, b, tau, controlsOpen, lockSize, animateDFS,
                  dfsSegMs, savedVars, mqMatches, settingsItem, held, lastOp, uncaught,
                  crashed >>
  /\ UNCHANGED others

StorageNext ==
  \/ newMaze \/ handleSave \/ handleLoad \/ handleDelete
  \/ StorageChange \/ Remount

\* a collection of up to three entries, saved, loaded and deleted
MaxEntries == 3

EntryIds == {"a", "b", "c"}

handleSaveEntry == handleSaveOf(EntryIds, MaxEntries)

EntriesNext == newMaze \/ handleSaveEntry \/ handleLoad \/ handleDelete

SavedNext ==
  \/ newMaze \/ WidthSlider \/ HeightSlider \/ LockToggle
  \/ handleSave \/ handleLoad \/ handleDelete \/ Remount

SettingsNext ==
  \/ newMaze \/ WidthSlider \/ HeightSlider \/ GSlider \/ BSlider \/ TauSlider
  \/ ToggleControls \/ Minimize \/ Gear \/ LockToggle \/ AnimateToggle \/ SegSlider
  \/ MqChange \/ Remount

(***************************************************************************)
(* The max-difficulty sweep (App.tsx:203-216), one candidate per step.     *)
(* swCalls is the log of the createMaze calls of the sweep under way: the  *)
(* parameters passed and the D returned.                                   *)
(***************************************************************************)
MaxSweeps == 1

gVals == << 0, 20, 40, 60, 80, 100 >>
bVals == << 0, 10, 20, 30, 40, 50 >>
tVals == << 0, 20, 40, 60, 80, 100 >>

NumCandidates == Len(gVals) * Len(bVals) * Len(tVals)

\* the i-th triple of for (gg) for (bb) for (tt), i from 0
Candidate(i) ==
  [g |-> gVals[(i \div (Len(bVals) * Len(tVals))) + 1],
   b |-> bVals[((i \div Len(tVals)) % Len(bVals)) + 1],
   tau |-> tVals[(i % Len(tVals)) + 1]]

\* let best = null
NoBest == [some |-> FALSE, g |-> 0, b |-> 0, tau |-> 0, D |-> 0]

\* a comparison that lets a later equal candidate win
BetterOrEqual(D, bst) == ~bst.some \/ D >= bst.D

\* !best || D > best.D
Better(D, bst) == ~bst.some \/ D > bst.D

\* the dimensions and seed a sweep is run at
SweepInputs == { [width |-> 3, height |-> 3, seed |-> 24],
                 [width |-> 3, height |-> 2, seed |-> 40] }

SweepInit ==
  /\ best = NoBest
  /\ swI = 0
  /\ swPc = "idle"
  /\ swCalls = << >>
  /\ nsweeps = 0

shellOnly == << controlsOpen, lockSize, animateDFS, dfsSegMs, savedVars, mqMatches >>

\* onMaxDifficulty: the loop is entered
findMaxDifficulty ==
  /\ swPc = "idle"
  /\ nsweeps < MaxSweeps
  /\ swPc' = "loop"
  /\ swI' = 0
  /\ best' = NoBest
  /\ swCalls' = << >>
  /\ nsweeps' = nsweeps + 1
  /\ UNCHANGED << shellVars, engVars, phaseVars, pageVars >>

\* the body of the loop for one candidate, D the score createMaze returned
Consider(cand, D) ==
  /\ best' = IF Better(D, best)
             THEN [some |-> TRUE, g |-> cand.g, b |-> cand.b, tau |-> cand.tau, D |-> D]
             ELSE best
  /\ swCalls' = Append(swCalls,
                       [p |-> MazeParams(width, height, seed, cand.g, cand.b, cand.tau),
                        D |-> D])

SweepStep ==
  /\ swPc = "loop"
  /\ swI < NumCandidates
  /\ Consider(Candidate(swI),
              createMaze(MazeParams(width, height, seed, Candidate(swI).g,
                                    Candidate(swI).b, Candidate(swI).tau)).stats.D)
  /\ swI' = swI + 1
  /\ UNCHANGED << swPc, nsweeps, shellVars, engVars, phaseVars, pageVars >>

\* if (best) { setG; setB; setTau; setSeed(s => s + 1) }, then the persist effect
SweepCommit ==
  /\ swPc = "loop"
  /\ swI = NumCandidates
  /\ g' = (IF best.some THEN best.g ELSE g)
  /\ b' = (IF best.some THEN best.b ELSE b)
  /\ tau' = (IF best.some THEN best.tau ELSE tau)
  /\ seed' = (IF best.some THEN seed + 1 ELSE seed)
  /\ UNCHANGED << width, height, shellOnly >>
  /\ Persist
  /\ lastOp' = "sweep"
  /\ swPc' = "idle"
  /\ UNCHANGED << best, swI, swCalls, nsweeps, engVars, phaseVars, pageVars, storeVars >>
  /\ Mounted

SweepNext == findMaxDifficulty \/ SweepStep \/ SweepCommit

(***************************************************************************)
(* The Maze View's phase machine (MazeView.tsx:101-133).  Its governing    *)
(* inputs are props; a pending timer is a record of its kind, the time     *)
(* left, the phase its callback captured and the inputs it was scheduled   *)
(* under.  lastFire is the last timer that ran since the inputs changed.   *)
(***************************************************************************)
\* the buffer added to the draw time
DrawPadMs == 120

EnabledChoices == BOOLEAN
SegMsChoices == {10, 35}
LingerChoices == {500, 2000}
StepsChoices == {0, 8, 48}

\* how far time may advance at once, short of the next timer
PartWaits == {100}

Deps == [enabled |-> enabled, segMs |-> segMs, lingerMs |-> lingerMs,
         stepsCount |-> stepsCount]

AllDeps == [enabled : EnabledChoices, segMs : SegMsChoices, lingerMs : LingerChoices,
            stepsCount : StepsChoices]

\* what the view is given by the Shell's defaults on a 19 x 19 grid
DefaultDeps == [enabled |-> TRUE, segMs |-> 35, lingerMs |-> 2000, stepsCount |-> 360]

NoFire == [some |-> FALSE, kind |-> "none", deps |-> DefaultDeps, changed |-> FALSE]

\* a cleanup that cancels nothing
CleanupNone(ts) == ts

\* cancelled = true; clearTimeout(t1); clearTimeout(t2)
Cleanup(ts) == {}

\* window.setTimeout(callback, delay), the callback closing over ph
Timer(kind, delay, ph, d) == [kind |-> kind, due |-> delay, saw |-> ph, deps |-> d]

\* the effect body, run in a render whose phase is ph
RunEffect(ph, d) ==
  IF ~d.enabled \/ d.stepsCount = 0
  THEN [phase |-> "idle", timers |-> {}]
  ELSE [phase |-> "animating",
        timers |-> {Timer("linger", d.stepsCount * d.segMs + DrawPadMs, ph, d),
                    Timer("idle", d.stepsCount * d.segMs + DrawPadMs + d.lingerMs, ph, d)}]

\* the view mounted with inputs d
PhaseMount(d) ==
  /\ enabled = d.enabled
  /\ segMs = d.segMs
  /\ lingerMs = d.lingerMs
  /\ stepsCount = d.stepsCount
  /\ phase = RunEffect("idle", d).phase
  /\ timers = RunEffect("idle", d).timers
  /\ lastFire = NoFire

\* a render with a changed input: the cleanup of the last effect, then the effect
PropsChange ==
  /\ \E d \in AllDeps \ {Deps} :
       /\ enabled' = d.enabled
       /\ segMs' = d.segMs
       /\ lingerMs' = d.lingerMs
       /\ stepsCount' = d.stepsCount
       /\ phase' = RunEffect(phase, d).phase
       /\ timers' = Cleanup(timers) \cup RunEffect(phase, d).timers
  /\ lastFire' = NoFire
  /\ UNCHANGED << engVars, shellVars, sweepVars, pageVars >>

MinDue == CHOOSE m \in {tm.due : tm \in timers} : \A tm \in timers : m <= tm.due

\* time passes, up to the next timer
Elapse ==
  /\ timers # {}
  /\ MinDue > 0
  /\ \E w \in {MinDue} \cup {pw \in PartWaits : pw < MinDue} :
       timers' = {[tm EXCEPT !.due = @ - w] : tm \in timers}
  /\ UNCHANGED << phase, enabled, segMs, lingerMs, stepsCount, lastFire >>
  /\ UNCHANGED << engVars, shellVars, sweepVars, pageVars >>

\* the phase a timer's callback sets, if any
Callback(tm, ph) ==
  IF tm.kind = "linger"
  THEN (IF tm.saw # "linger" THEN "linger" ELSE ph)
  ELSE (IF tm.saw # "idle" THEN "idle" ELSE ph)

\* a due timer runs; of two due at once the one set first runs first
Fire ==
  /\ \E tm \in timers :
       /\ tm.due = 0
       /\ ~(tm.kind = "idle" /\ Timer("linger", 0, tm.saw, tm.deps) \in timers)
       /\ phase' = Callback(tm, phase)
       /\ timers' = timers \ {tm}
       /\ lastFire' = [some |-> TRUE, kind |-> tm.kind, deps |-> tm.deps,
                       changed |-> Callback(tm, phase) # phase]
  /\ UNCHANGED << enabled, segMs, lingerMs, stepsCount >>
  /\ UNCHANGED << engVars, shellVars, sweepVars, pageVars >>

PhaseNext == PropsChange \/ Elapse \/ Fire

(***************************************************************************)
(* Printing (App.tsx:53-88).  printing is the module-level guard; a flow   *)
(* is one acquisition of it, numbered from 1.  tasks are the callbacks     *)
(* the page has scheduled (animation frames, timeouts, the frame's load),  *)
(* listeners the flows whose done is registered for afterprint, frames the *)
(* flows whose hidden frame is in the document, events the afterprint      *)
(* signals the browser may still deliver, each to one window: 0 is the     *)
(* page's window, f the window of flow f's frame.                          *)
(***************************************************************************)
MaxPrintCalls == 3

\* a guard test that never finds a flow in progress
BusyNever(flag) == FALSE

\* if (__printing) return
Busy(flag) == flag

Task(kind, f) == [kind |-> kind, flow |-> f]

\* the window flow f prints
WindowOf(f) == IF constrained THEN 0 ELSE f

\* the state after construction: no flow, nothing scheduled
PrintStart(c) ==
  /\ constrained = c
  /\ printing = FALSE
  /\ tasks = {}
  /\ listeners = {}
  /\ frames = {}
  /\ events = {}
  /\ nflows = 0
  /\ nprints = 0
  /\ pcalls = 0

notPrint == << engVars, shellVars, sweepVars, phaseVars, overlayVars, installVars, viewVars >>

\* handlePrint(svg): the guard, then the constrained path's animation frame
\* or the hidden frame appended to the document
handlePrint ==
  /\ pcalls < MaxPrintCalls
  /\ pcalls' = pcalls + 1
  /\ IF Busy(printing)
     THEN UNCHANGED << printing, tasks, frames, nflows >>
     ELSE /\ printing' = TRUE
          /\ nflows' = nflows + 1
          /\ tasks' = tasks \cup {Task(IF constrained THEN "raf" ELSE "onload", nflows + 1)}
          /\ frames' = IF constrained THEN frames ELSE frames \cup {nflows + 1}
  /\ UNCHANGED << constrained, listeners, events, nprints, notPrint >>

\* window.print() / iw.print() on window w: the print itself, and the
\* afterprint signal, which the browser delivers later or has delivered,
\* to the listeners there were, by the time print() returns (missed)
NativePrint(w, missed) ==
  /\ nprints' = nprints + 1
  /\ events' = IF missed THEN events ELSE events \cup {[win |-> w, n |-> nprints + 1]}

\* the constrained path's animation frame: print, register done, start the
\* fallback timeout
RafRun ==
  /\ \E tk \in tasks :
       /\ tk.kind = "raf"
       /\ \E missed \in BOOLEAN : NativePrint(0, missed)
       /\ listeners' = listeners \cup {tk.flow}
       /\ tasks' = (tasks \ {tk}) \cup {Task("fallback", tk.flow)}
  /\ UNCHANGED << constrained, printing, frames, nflows, pcalls, notPrint >>

\* iframe.onload with no content window
OnLoadNoWindow ==
  /\ \E tk \in tasks :
       /\ tk.kind = "onload"
       /\ tasks' = tasks \ {tk}
       /\ frames' = frames \ {tk.flow}
  /\ printing' = FALSE
  /\ UNCHANGED << constrained, listeners, events, nflows, nprints, pcalls, notPrint >>

\* iframe.onload: register done, then focus and schedule the two prints
OnLoad ==
  /\ \E tk \in tasks :
       /\ tk.kind = "onload"
       /\ listeners' = listeners \cup {tk.flow}
       /\ tasks' = (tasks \ {tk})
                     \cup {Task("rafPrint", tk.flow), Task("timeoutPrint", tk.flow)}
  /\ UNCHANGED << constrained, printing, frames, events, nflows, nprints, pcalls, notPrint >>

\* iframe.onload where the try block throws: the catch starts the fallback
OnLoadThrows ==
  /\ \E tk \in tasks :
       /\ tk.kind = "onload"
       /\ listeners' = listeners \cup {tk.flow}
       /\ tasks' = (tasks \ {tk}) \cup {Task("fallback", tk.flow)}
  /\ UNCHANGED << constrained, printing, frames, events, nflows, nprints, pcalls, notPrint >>

\* iw.print() from the frame's animation frame or from setTimeout(..., 50);
\* a frame that has been removed prints nothing
FramePrint ==
  /\ \E tk \in tasks :
       /\ tk.kind \in {"rafPrint", "timeoutPrint"}
       /\ tasks' = tasks \ {tk}
       /\ IF tk.flow \in frames
          THEN \E missed \in BOOLEAN : NativePrint(tk.flow, missed)
          ELSE UNCHANGED << nprints, events >>
  /\ UNCHANGED << constrained, printing, listeners, frames, nflows, pcalls, notPrint >>

\* done of each flow in fs: release the guard, drop the listener, and on the
\* desktop path remove the frame
Done(fs) ==
  /\ printing' = IF fs = {} THEN printing ELSE FALSE
  /\ listeners' = listeners \ fs
  /\ frames' = frames \ fs

\* setTimeout(done, 1500) runs
FallbackFire ==
  /\ \E tk \in tasks :
       /\ tk.kind = "fallback"
       /\ tasks' = tasks \ {tk}
       /\ Done({tk.flow})
  /\ UNCHANGED << constrained, events, nflows, nprints, pcalls, notPrint >>

\* the browser delivers an afterprint signal to the listeners on its window
AfterPrint ==
  /\ \E ev \in events :
       /\ events' = events \ {ev}
       /\ Done({f \in listeners : WindowOf(f) = ev.win})
  /\ UNCHANGED << constrained, tasks, nflows, nprints, pcalls, notPrint >>

\* the steps the browser's scheduler takes without the user or the printer
PrintSched == RafRun \/ OnLoadNoWindow \/ OnLoad \/ OnLoadThrows \/ FramePrint \/ FallbackFire

PrintNext ==
  \/ handlePrint \/ RafRun \/ OnLoadNoWindow \/ OnLoad \/ OnLoadThrows
  \/ FramePrint \/ FallbackFire \/ AfterPrint

(***************************************************************************)
(* The animated overlay (AnimatedOverlay.tsx).  ovProps are the props of   *)
(* the last render; doneRef is the completion guard; ovTimers holds the    *)
(* time left on each pending completion timer; anim is the CSS animation   *)
(* of the polyline path and its age; notified counts the calls of onDone   *)
(* since the overlay last became visible.  ovMounted is false once a       *)
(* render has thrown and React has removed the component.                  *)
(***************************************************************************)
MaxChanges == 2

BufferMs == 120

MinSegMs == 10

MinDurMs == 200

OverlaySteps == {0, 2}

OverlaySegMs == {5, 100}

Callbacks == {1, 2}

OverlayWaits == {50}

OverlayProps ==
  [visible : BOOLEAN, steps : OverlaySteps, segMs : OverlaySegMs, onDone : Callbacks,
   mode : {"segments", "polyline"}, autoHide : BOOLEAN]

\* Math.max(10, segMs)
effSegMs(p) == MaxOf(MinSegMs, p.segMs)

\* steps.length * effSegMs + 120
totalMs(p) == p.steps * effSegMs(p) + BufferMs

\* durSec, in milliseconds
durMs(p) == MaxOf(MinDurMs, p.steps * MaxOf(MinSegMs, p.segMs))

\* the effect's dependency list
OverlayDeps(p) == << p.visible, p.steps, effSegMs(p), p.onDone >>

\* the render returns the polyline path, which carries onAnimationEnd
PathShown(p) == p.visible /\ p.steps # 0 /\ p.mode = "polyline"

\* the hooks one render calls: useRef and useEffect, and useMemo once the
\* render gets past the early return into the polyline branch
Hooks(p) == IF PathShown(p) THEN 3 ELSE 2

NoAnim == [state |-> "none", age |-> 0]

\* the completion effect's body: the guard is reset and, when visible, one
\* timer is set
OverlayEffect(p) == IF p.visible THEN {totalMs(p)} ELSE {}

\* the first render and its effect
OverlayMount(p) ==
  /\ ovProps = p
  /\ ovMounted = TRUE
  /\ doneRef = FALSE
  /\ ovTimers = OverlayEffect(p)
  /\ anim = (IF PathShown(p) THEN [state |-> "running", age |-> 0] ELSE NoAnim)
  /\ notified = 0
  /\ nchanges = 0

notOverlay == << engVars, shellVars, sweepVars, phaseVars, printVars, installVars, viewVars >>

\* the parent renders the overlay with one prop changed
Rerender ==
  /\ ovMounted
  /\ nchanges < MaxChanges
  /\ nchanges' = nchanges + 1
  /\ \E p \in OverlayProps :
       /\ p # ovProps
       /\ p.mode = ovProps.mode
       /\ p.autoHide = ovProps.autoHide
       /\ Cardinality({f \in {"visible", "steps", "segMs", "onDone"} : p[f] # ovProps[f]}) = 1
       /\ ovProps' = p
       /\ IF Hooks(p) # Hooks(ovProps)
          THEN /\ ovMounted' = FALSE
               /\ ovTimers' = {}
               /\ anim' = NoAnim
               /\ UNCHANGED << doneRef, notified >>
          ELSE /\ ovMounted' = TRUE
               /\ IF OverlayDeps(p) # OverlayDeps(ovProps)
                  THEN /\ doneRef' = FALSE
                       /\ ovTimers' = OverlayEffect(p)
                  ELSE UNCHANGED << doneRef, ovTimers >>
               /\ anim' = anim
               /\ notified' = (IF p.visible /\ ~ovProps.visible THEN 0 ELSE notified)
  /\ UNCHANGED notOverlay

\* the time until the animation ends, if it is running
AnimLeft == IF anim.state = "running" /\ anim.age < durMs(ovProps)
            THEN {durMs(ovProps) - anim.age} ELSE {}

\* the times at which something is due
OverlayDue == {d \in ovTimers : d > 0} \cup AnimLeft

OverlayNext1 == CHOOSE m \in OverlayDue : \A d \in OverlayDue : m <= d

\* time passes, up to the next timer or the end of the animation
OverlayWait ==
  /\ ovMounted
  /\ OverlayDue # {}
  /\ 0 \notin ovTimers
  /\ ~(anim.state = "running" /\ anim.age >= durMs(ovProps))
  /\ \E w \in {OverlayNext1} \cup {pw \in OverlayWaits : pw < OverlayNext1} :
       /\ ovTimers' = {d - w : d \in ovTimers}
       /\ anim' = (IF anim.state = "running" THEN [anim EXCEPT !.age = @ + w] ELSE anim)
  /\ UNCHANGED << ovProps, ovMounted, doneRef, notified, nchanges >>
  /\ UNCHANGED notOverlay

\* the completion timer's callback
OverlayTimer ==
  /\ ovMounted
  /\ 0 \in ovTimers
  /\ ovTimers' = ovTimers \ {0}
  /\ doneRef' = TRUE
  /\ notified' = (IF ~doneRef THEN notified + 1 ELSE notified)
  /\ UNCHANGED << ovProps, ovMounted, anim, nchanges >>
  /\ UNCHANGED notOverlay

\* onAnimationEnd of the polyline path
onAnimationEnd ==
  /\ ovMounted
  /\ anim.state = "running"
  /\ anim.age >= durMs(ovProps)
  /\ anim' = [anim EXCEPT !.state = "ended"]
  /\ notified' = (IF ovProps.autoHide THEN notified + 1 ELSE notified)
  /\ UNCHANGED << ovProps, ovMounted, doneRef, ovTimers, nchanges >>
  /\ UNCHANGED notOverlay

OverlayNext == Rerender \/ OverlayWait \/ OverlayTimer \/ onAnimationEnd

(***************************************************************************)
(* The install hook (usePWAInstall.ts).  deferred is the captured          *)
(* beforeinstallprompt event, 0 for null, events numbered from 1 as they   *)
(* arrive; awaiting holds the install() calls suspended at their await;    *)
(* replays[k] counts the prompt() calls made on event k.                   *)
(***************************************************************************)
MaxSignals == 2

MaxInstalls == 3

NoPrompt == 0

\* useState(null), useState(false)
InstallStart ==
  /\ deferred = NoPrompt
  /\ canInstall = FALSE
  /\ awaiting = {}
  /\ replays = [k \in 1..MaxSignals |-> 0]
  /\ nsignals = 0
  /\ ninstalls = 0

notInstall == << engVars, shellVars, sweepVars, phaseVars, printVars, overlayVars, viewVars >>

\* onBip: the browser signals that the app can be installed
onBip ==
  /\ nsignals < MaxSignals
  /\ nsignals' = nsignals + 1
  /\ deferred' = nsignals + 1
  /\ canInstall' = TRUE
  /\ UNCHANGED << awaiting, replays, ninstalls >>
  /\ UNCHANGED notInstall

\* install(), up to its await
install ==
  /\ ninstalls < MaxInstalls
  /\ ninstalls' = ninstalls + 1
  /\ IF deferred = NoPrompt
     THEN UNCHANGED << canInstall, awaiting, replays >>
     ELSE /\ canInstall' = FALSE
          /\ replays' = [replays EXCEPT ![deferred] = @ + 1]
          /\ awaiting' = awaiting \cup {ninstalls + 1}
  /\ UNCHANGED << deferred, nsignals >>
  /\ UNCHANGED notInstall

\* the promise of prompt() is fulfilled and install() runs to its end
PromptSettles ==
  /\ \E c \in awaiting : awaiting' = awaiting \ {c}
  /\ deferred' = NoPrompt
  /\ UNCHANGED << canInstall, replays, nsignals, ninstalls >>
  /\ UNCHANGED notInstall

\* the promise of prompt() is rejected and install() ends at its await
PromptRejects ==
  /\ \E c \in awaiting : awaiting' = awaiting \ {c}
  /\ UNCHANGED << deferred, canInstall, replays, nsignals, ninstalls >>
  /\ UNCHANGED notInstall

InstallNext == onBip \/ install \/ PromptSettles \/ PromptRejects

(***************************************************************************)
(* The Maze View's document and emissions (MazeView.tsx:44-99,             *)
(* maze.ts:225-293).  vparams and hideWalls are props, with enabled, segMs *)
(* and lingerMs of the phase machine; memo is the value of the memo, whose *)
(* svg stands for the document string: the viewBox's grid, the wall lines  *)
(* in the order they are written, the class of the wall layer, the carve   *)
(* path and its duration.  The memo reads the carve steps of the result    *)
(* under the name steps; maze.ts returns them as treeSteps.  lastSvg and   *)
(* lastStats are the refs of the two emitting effects, svgEmits and        *)
(* statsEmits the calls of onSVGChange and onStats made so far; mazes is    *)
(* what createMaze returns for the parameters the view may be given.       *)
(***************************************************************************)
MaxViewChanges == 2

MaxViewDim == 3

CellPx == 24

MarginPx == 12

MinTotalMs == 200

DefaultTotalMs == 4000

ViewDims == 1..MaxViewDim

\* the parameters the view is mounted with; b = 0.5 braids every dead end
\* that has a wall to open
ViewParams == { MazeParams(W, H, 42, 30, 50, 40) : W \in ViewDims, H \in ViewDims }

\* margin + x*cell
Px(k) == MarginPx + k * CellPx

Seg(x1, y1, x2, y2) == << Px(x1), Px(y1), Px(x2), Px(y2) >>

\* a renderer that draws the south side of every cell
CellLinesAllSouth(m, W, H, x, y) ==
  (IF m[<< x, y >>].n = 1 THEN << Seg(x, y, x + 1, y) >> ELSE << >>)
  \o (IF m[<< x, y >>].w = 1 THEN << Seg(x, y, x, y + 1) >> ELSE << >>)
  \o (IF m[<< x, y >>].s = 1 THEN << Seg(x, y + 1, x + 1, y + 1) >> ELSE << >>)
  \o (IF x = W - 1 /\ m[<< x, y >>].e = 1 THEN << Seg(x + 1, y, x + 1, y + 1) >> ELSE << >>)

\* the lines written for cell (x, y): north, west, south on the bottom row,
\* east on the right column
CellLines(m, W, H, x, y) ==
  (IF m[<< x, y >>].n = 1 THEN << Seg(x, y, x + 1, y) >> ELSE << >>)
  \o (IF m[<< x, y >>].w = 1 THEN << Seg(x, y, x, y + 1) >> ELSE << >>)
  \o (IF y = H - 1 /\ m[<< x, y >>].s = 1 THEN << Seg(x, y + 1, x + 1, y + 1) >> ELSE << >>)
  \o (IF x = W - 1 /\ m[<< x, y >>].e = 1 THEN << Seg(x + 1, y, x + 1, y + 1) >> ELSE << >>)

\* for (y) for (x), from cell number k on
RECURSIVE WallLines(_, _, _, _)
WallLines(m, W, H, k) ==
  IF k >= W * H THEN << >>
  ELSE CellLines(m, W, H, k % W, k \div W) \o WallLines(m, W, H, k + 1)

\* Math.max(0.2, opts.dfsTotalSec ?? 4), in milliseconds; total < 0 stands
\* for undefined
DfsDur(total) == MaxOf(MinTotalMs, IF total < 0 THEN DefaultTotalMs ELSE total)

\* the document: opts = [dfsSteps, dfsTotalMs, hideWallsDuringAnim]
toSVG(m, W, H, opts) ==
  [grid |-> << W, H >>,
   walls |-> WallLines(m, W, H, 0),
   hide |-> opts.hideWallsDuringAnim,
   marks |-> << StartOf(W, H), GoalOf(W, H) >>,
   dfs |-> IF Len(opts.dfsSteps) > 0
           THEN [some |-> TRUE, d |-> opts.dfsSteps, dur |-> DfsDur(opts.dfsTotalMs)]
           ELSE [some |-> FALSE, d |-> << >>, dur |-> 0]]

\* the memo's value from the result r of createMaze, in a render whose phase
\* is ph
MemoOf(r, p, en, sg, hw, ph) ==
  [svg |-> toSVG(r.maze, p.width, p.height,
                 [dfsSteps |-> IF en /\ ph # "idle" THEN r.treeSteps ELSE << >>,
                  dfsTotalMs |-> IF en THEN Len(r.treeSteps) * sg ELSE -1,
                  hideWallsDuringAnim |-> hw]),
   stats |-> r.stats,
   stepsCount |-> Len(r.treeSteps)]

\* createMaze is a function of its parameters: what it returns for each of
\* the parameters the view may be given
ViewMazes ==
  [p \in { MazeParams(W, H, sd, 30, 50, 40) : W \in ViewDims, H \in ViewDims, sd \in Seeds }
     |-> createMaze(p)]

Memo(p, en, sg, hw, ph) == MemoOf(mazes[p], p, en, sg, hw, ph)

\* a comparison of the node count alone
SameL(prev, s) == prev.L = s.L

\* prev.L===s.L && prev.T===s.T && prev.J===s.J && prev.E===s.E && prev.D===s.D
Same(prev, s) ==
  /\ prev.L = s.L
  /\ prev.T.num * s.T.den = s.T.num * prev.T.den
  /\ prev.J = s.J
  /\ prev.E = s.E
  /\ prev.D = s.D

NoMemo == [svg |-> << >>, stats |-> NoStats, stepsCount |-> 0]

\* the view's own state where the view is not looked at
ViewRest ==
  /\ mazes = << >>
  /\ vparams = MazeParams(19, 19, 42, 30, 15, 40)
  /\ hideWalls = TRUE
  /\ memo = NoMemo
  /\ lastSvg = << >>
  /\ lastStats = NoStats
  /\ svgEmits = 0
  /\ statsEmits = 0
  /\ nviews = 0

\* the first render, with phase idle, and its three effects
ViewMount(p, en, sg, lm, hw) ==
  /\ mazes = ViewMazes
  /\ vparams = p
  /\ hideWalls = hw
  /\ memo = Memo(p, en, sg, hw, "idle")
  /\ lastSvg = memo.svg
  /\ lastStats = memo.stats
  /\ svgEmits = 1
  /\ statsEmits = 1
  /\ nviews = 0
  /\ PhaseMount([enabled |-> en, segMs |-> sg, lingerMs |-> lm,
                 stepsCount |-> memo.stepsCount])

notView == << engVars, shellVars, sweepVars, printVars, overlayVars, installVars >>

Props == [params |-> vparams, enabled |-> enabled, segMs |-> segMs, hideWalls |-> hideWalls]

\* the props of the next render: one of them has changed
NextProps ==
  ({ [Props EXCEPT !.params = q] : q \in
       { [vparams EXCEPT !.width = W] : W \in ViewDims }
       \cup { [vparams EXCEPT !.height = H] : H \in ViewDims }
       \cup { [vparams EXCEPT !.seed = sd] : sd \in Seeds } }
   \cup { [Props EXCEPT !.enabled = en] : en \in BOOLEAN }
   \cup { [Props EXCEPT !.segMs = sg] : sg \in SegMsChoices }
   \cup { [Props EXCEPT !.hideWalls = hw] : hw \in BOOLEAN }) \ {Props}

\* a render with props q: the memo when one of its dependencies changed, the
\* two emitting effects, the phase effect when one of its dependencies changed
Render(q, m) ==
  /\ vparams' = q.params
  /\ hideWalls' = q.hideWalls
  /\ memo' = m
  /\ lastSvg' = m.svg
  /\ svgEmits' = (IF m.svg # lastSvg THEN svgEmits + 1 ELSE svgEmits)
  /\ lastStats' = (IF Same(lastStats, m.stats) THEN lastStats ELSE m.stats)
  /\ statsEmits' = (IF Same(lastStats, m.stats) THEN statsEmits ELSE statsEmits + 1)
  /\ enabled' = q.enabled
  /\ segMs' = q.segMs
  /\ lingerMs' = lingerMs
  /\ stepsCount' = m.stepsCount
  /\ IF Deps' # Deps
     THEN /\ phase' = RunEffect(phase, Deps').phase
          /\ timers' = Cleanup(timers) \cup RunEffect(phase, Deps').timers
          /\ lastFire' = NoFire
     ELSE UNCHANGED << phase, timers, lastFire >>

ViewChange ==
  /\ nviews < MaxViewChanges
  /\ nviews' = nviews + 1
  /\ mazes' = mazes
  /\ \E q \in NextProps :
       Render(q, IF q # Props
                 THEN Memo(q.params, q.enabled, q.segMs, q.hideWalls, phase)
                 ELSE memo)
  /\ UNCHANGED notView

ViewNext == ViewChange \/ Elapse \/ Fire

(***************************************************************************)
(* Specifications: one per part of the program, the other parts at rest.   *)
(***************************************************************************)
\* a Shell constructed against a settings item that holds inp's dimensions
\* and seed
ShellAt(inp) ==
  /\ crashed = FALSE
  /\ storageFails = FALSE
  /\ uncaught = FALSE
  /\ mqMatches = FALSE
  /\ seed = inp.seed
  /\ width = inp.width
  /\ height = inp.height
  /\ g = useStateInit(NoItem).g
  /\ b = useStateInit(NoItem).b
  /\ tau = useStateInit(NoItem).tau
  /\ controlsOpen = ~mqMatches
  /\ lockSize = FALSE
  /\ animateDFS = TRUE
  /\ dfsSegMs = 35
  /\ saved = << >>
  /\ selectedId = NoId
  /\ settingsItem = SettingsText(Settings)
  /\ savedItem = NoItem
  /\ held = Held
  /\ lastOp = "init"

ShellRest == ShellAt([width |-> 19, height |-> 19, seed |-> 42])

\* the printing state at rest, on the desktop path
PrintRest == PrintStart(FALSE)

\* the overlay at rest: mounted invisible
OverlayRest ==
  OverlayMount([visible |-> FALSE, steps |-> 0, segMs |-> 100, onDone |-> 1,
                mode |-> "segments", autoHide |-> FALSE])

PageRest == PrintRest /\ OverlayRest /\ InstallStart /\ ViewRest

InitEngine == EngInit /\ ShellRest /\ SweepInit /\ PhaseMount(DefaultDeps) /\ PageRest

SpecEngine == InitEngine /\ [][EngNext]_vars

\* the steps of an invocation, and the states in which one of them is enabled
EngRun == DfsStep \/ StatsStep \/ BraidStep \/ Return

Running == pc \in {"dfs", "braid", "return"}

\* an invocation that has been entered keeps running; the callers owe
\* nothing.  This is WF_vars(EngRun) with ENABLED <<EngRun>>_vars written
\* out as Running.
SpecEngineFair == SpecEngine /\ ([]<>~Running \/ []<><<EngRun>>_vars)

InitShell == EngInit /\ ShellInit /\ SweepInit /\ PhaseMount(DefaultDeps) /\ PageRest

SpecSaved == InitShell /\ [][SavedNext]_vars

SpecSettings == InitShell /\ [][SettingsNext]_vars

SpecEntries == InitShell /\ [][EntriesNext]_vars

SpecStorage == InitShell /\ [][StorageNext]_vars

SpecCorrupt == InitShell /\ [][CorruptNext]_vars

InitSweep ==
  /\ EngInit
  /\ \E inp \in SweepInputs : ShellAt(inp)
  /\ SweepInit
  /\ PhaseMount(DefaultDeps)
  /\ PageRest

SpecSweep == InitSweep /\ [][SweepNext]_vars

InitPhase ==
  /\ EngInit
  /\ ShellRest
  /\ SweepInit
  /\ \E d \in AllDeps : PhaseMount(d)
  /\ PageRest

SpecPhase == InitPhase /\ [][PhaseNext]_vars

\* time passes and a due timer runs; the inputs may change or not
SpecPhaseFair == SpecPhase /\ WF_vars(Elapse) /\ WF_vars(Fire)

\* everything but the page's own services at rest
AppRest == EngInit /\ ShellRest /\ SweepInit /\ PhaseMount(DefaultDeps)

InitPrint ==
  /\ AppRest
  /\ \E c \in BOOLEAN : PrintStart(c)
  /\ OverlayRest
  /\ InstallStart
  /\ ViewRest

SpecPrint == InitPrint /\ [][PrintNext]_vars

\* the scheduler runs every callback it holds; the user and the printer owe
\* nothing
SpecPrintFair == SpecPrint /\ WF_vars(PrintSched)

InitOverlay ==
  /\ AppRest
  /\ PrintRest
  /\ \E p \in OverlayProps : OverlayMount(p)
  /\ InstallStart
  /\ ViewRest

SpecOverlay == InitOverlay /\ [][OverlayNext]_vars

InitInstall == AppRest /\ PageRest

SpecInstall == InitInstall /\ [][InstallNext]_vars

InitView ==
  /\ EngInit
  /\ ShellRest
  /\ SweepInit
  /\ PrintRest
  /\ OverlayRest
  /\ InstallStart
  /\ \E p \in ViewParams, en \in BOOLEAN, hw \in BOOLEAN : ViewMount(p, en, 35, 500, hw)

SpecView == InitView /\ [][ViewNext]_vars

(***************************************************************************)
(* Properties of the generation engine.                                    *)
(***************************************************************************)
Sides == {"n", "s", "e", "w"}

\* the position across side k of cell c, and the side that faces k
Across(c, k) == << c[1] + WallDelta(k)[1], c[2] + WallDelta(k)[2] >>

Facing(k) ==
  CHOOSE k2 \in Sides : /\ WallDelta(k2)[1] = -WallDelta(k)[1]
                        /\ WallDelta(k2)[2] = -WallDelta(k)[2]

StepSrc(st) == << st[1], st[2] >>
StepDst(st) == << st[3], st[4] >>

Returned == pc = "ret"

\* C1: an invocation returns the same maze, treeSteps, braidEdits and stats
\* as the first invocation with these parameters did, whatever calls were
\* made in between.
Determinism == Returned /\ params \in DOMAIN results => Result = results[params]

\* the second of two invocations with the same parameters has returned, with
\* a carve and a braid edit in it
DeterminismWitness ==
  /\ Returned
  /\ ncalls >= 2
  /\ Cardinality(DOMAIN results) < ncalls
  /\ Len(treeSteps) > 0
  /\ Len(braidEdits) > 0

RoundDiv(num, den) == (2 * num + den) \div (2 * den)

IsPow2(n) == 2 ^ FloorLog2(n) = n

\* C2: stats has exactly the fields L, T, J, E, D; D is the score of the
\* pre-braid tree (its rounded value written out in integers where log2 is
\* exact), and it is 6.499 for the regression test's parameters.
StatsContract ==
  Returned =>
    /\ DOMAIN stats = {"L", "T", "J", "E", "D"}
    /\ stats = computeTreeStats(tree, treeSteps)
    /\ IsPow2(stats.L) =>
         stats.D = 700 * FloorLog2(MaxOf(2, stats.L))
                   + RoundDiv(800 * stats.T.num + 500 * stats.J + 300 * stats.E,
                              MaxOf(1, stats.L))
    /\ params = TestParams => stats.D = 6499

\* the regression test's call has returned, its maze braided
StatsWitness == Returned /\ params = TestParams /\ maze # tree

Visited(steps) == {StepDst(steps[i]) : i \in 1..Len(steps)}

\* C3: every push visits a new cell, and once the stack has emptied every
\* cell has been visited: treeSteps.length + 1 = width * height = stats.L.
SpanningCoverage ==
  /\ pc = "dfs" => Cardinality(seen) = Len(treeSteps) + 1
  /\ pc \in {"braid", "return", "ret"} =>
       /\ Len(treeSteps) + 1 = params.width * params.height
       /\ seen = Cells(params.width, params.height)
       /\ Cardinality(Visited(treeSteps)) = Len(treeSteps)
       /\ StartOf(params.width, params.height) \notin Visited(treeSteps)
       /\ stats.L = params.width * params.height

\* the loop has ended on a grid with more than one row and column
SpanningWitness ==
  pc \in {"braid", "return"} /\ bk = 0 /\ params.width > 1 /\ params.height > 1

\* the ordered pairs of cells with the wall of the first toward the second clear
OpenEdges(grid) ==
  UNION {{<< c, Across(c, k) >> : k \in {k2 \in Sides : grid[c][k2] = 0}} :
           c \in DOMAIN grid}

StepEdges(steps) ==
  {<< StepSrc(steps[i]), StepDst(steps[i]) >> : i \in 1..Len(steps)}
    \cup {<< StepDst(steps[i]), StepSrc(steps[i]) >> : i \in 1..Len(steps)}

ReachStep(edges, R) == R \cup {e[2] : e \in {e2 \in edges : e2[1] \in R}}

RECURSIVE Reach(_, _)
\* the cells reachable from the set R along edges
Reach(edges, R) == IF ReachStep(edges, R) = R THEN R ELSE Reach(edges, ReachStep(edges, R))

\* C4: the tree grid is a perfect maze.  Its passages are exactly the
\* treeSteps, in both directions; it is connected, with one passage fewer
\* than cells; every cell but start is the target of exactly one step, whose
\* source is adjacent and was visited earlier; with b = 0 it is the maze.
PerfectMaze ==
  Returned =>
    /\ OpenEdges(tree) = StepEdges(treeSteps)
    /\ Reach(OpenEdges(tree), {StartOf(params.width, params.height)}) = DOMAIN tree
    /\ Cardinality(OpenEdges(tree)) = 2 * (Cardinality(DOMAIN tree) - 1)
    /\ Visited(treeSteps) = DOMAIN tree \ {StartOf(params.width, params.height)}
    /\ Cardinality(Visited(treeSteps)) = Len(treeSteps)
    /\ \A i \in 1..Len(treeSteps) :
         /\ Abs(treeSteps[i][3] - treeSteps[i][1])
              + Abs(treeSteps[i][4] - treeSteps[i][2]) = 1
         /\ \/ StepSrc(treeSteps[i]) = StartOf(params.width, params.height)
            \/ \E j \in 1..(i - 1) : StepDst(treeSteps[j]) = StepSrc(treeSteps[i])
    /\ params.b = 0 => maze = tree

\* an unbraided maze with a junction or a turn has been returned
PerfectMazeWitness ==
  Returned /\ params.b = 0 /\ Len(treeSteps) >= 5 /\ stats.T.num > 0

\* C5: in the returned maze a side of a cell is clear iff there is a cell
\* across it whose facing side is clear; so the open-degree of a cell is the
\* number of neighbours open toward it, and no boundary wall is clear.
MatchedPairs ==
  Returned =>
    \A c \in DOMAIN maze :
      /\ \A k \in Sides :
           maze[c][k] = 0 <=>
             (Across(c, k) \in DOMAIN maze /\ maze[Across(c, k)][Facing(k)] = 0)
      /\ openDeg(maze[c]) =
           Cardinality({k \in Sides : /\ Across(c, k) \in DOMAIN maze
                                      /\ maze[Across(c, k)][Facing(k)] = 0})
      /\ \A k \in Sides : Across(c, k) \notin DOMAIN maze => maze[c][k] = 1

\* a maze with a braid edit in it has been returned
MatchedPairsWitness ==
  Returned /\ Len(braidEdits) > 0 /\ Cardinality(OpenEdges(maze)) > Cardinality(OpenEdges(tree))

SameButB(p, q) == [p EXCEPT !.b = q.b] = q

\* C6: an invocation returns the stats and the treeSteps that every earlier
\* invocation with the same width, height, seed, g and tau returned,
\* whatever its b was.
BraidNonInterference ==
  Returned =>
    \A q \in DOMAIN results :
      SameButB(params, q) =>
        results[q].stats = stats /\ results[q].treeSteps = treeSteps

\* two invocations that differ in b only have returned different mazes
BraidNonInterferenceWitness ==
  /\ Returned
  /\ \E q \in DOMAIN results :
       /\ SameButB(params, q)
       /\ q.b # params.b
       /\ results[q].maze # maze
       /\ results[q].braidEdits # braidEdits


\* the first position of log holding its greatest D
FirstMax(log) ==
  CHOOSE i \in 1..Len(log) :
    /\ \A j \in 1..Len(log) : log[j].D <= log[i].D
    /\ \A j \in 1..(i - 1) : log[j].D < log[i].D

\* the calls logged so far are the candidates in iteration order at sd
CallsInOrder(sd) ==
  \A i \in 1..Len(swCalls) :
    swCalls[i].p = MazeParams(width, height, sd, Candidate(i - 1).g,
                              Candidate(i - 1).b, Candidate(i - 1).tau)

\* C7: the sweep calls createMaze once for each of the 216 triples, in the
\* order g, b, tau, at the current width, height and seed; the triple it
\* commits has a D no smaller than any other candidate's, and of the triples
\* with the greatest D it is the first in that order.
SweepCorrect ==
  /\ swPc = "loop" =>
       /\ Len(swCalls) = swI
       /\ CallsInOrder(seed)
       /\ swI > 0 =>
            /\ best.some
            /\ best.D = swCalls[FirstMax(swCalls)].D
            /\ [g |-> best.g, b |-> best.b, tau |-> best.tau]
                 = Candidate(FirstMax(swCalls) - 1)
  /\ lastOp = "sweep" /\ swPc = "idle" =>
       /\ Len(swCalls) = 216
       /\ CallsInOrder(seed - 1)
       /\ \A i \in 1..Len(swCalls) : swCalls[i].D <= swCalls[FirstMax(swCalls)].D
       /\ [g |-> g, b |-> b, tau |-> tau] = Candidate(FirstMax(swCalls) - 1)
       /\ settingsItem = SettingsText(Settings)

\* a sweep has committed a triple that was not the first candidate and that a
\* later candidate ties
SweepWitness ==
  /\ lastOp = "sweep"
  /\ swPc = "idle"
  /\ FirstMax(swCalls) > 1
  /\ \E j \in (FirstMax(swCalls) + 1)..Len(swCalls) :
       swCalls[j].D = swCalls[FirstMax(swCalls)].D

SixParams ==
  [width |-> width, height |-> height, seed |-> seed, g |-> g, b |-> b, tau |-> tau]

\* C8: a save stores the six current parameters, a reload of the collection
\* from storage yields the collection that was stored, and a load of an entry
\* by id leaves width, height, seed, g, b and tau equal to the six values of
\* that entry, whatever the lock-size toggle is.
SavedRoundTrip ==
  [][ /\ lastOp' = "save" => Find(saved', selectedId').params = SixParams
      /\ lastOp' = "reload" => saved' = saved
      /\ lastOp' = "load" => SixParams' = Find(saved, selectedId').params ]_vars

\* an entry that is not square has been loaded with the lock-size toggle on
LockedLoadWitness ==
  /\ lastOp = "load"
  /\ lockSize
  /\ selectedId \in SavedIds(saved)
  /\ Find(saved, selectedId).params.width # Find(saved, selectedId).params.height

\* C9: after a reload every one of the ten fields has the value the Shell
\* before it held when it last wrote the record.
SettingsRoundTrip ==
  [][ lastOp' = "reload" => Held' = held ]_vars

\* a Shell has been constructed against a record that holds values other than
\* the defaults
ReloadWitness ==
  /\ lastOp = "reload"
  /\ seed # 42
  /\ lockSize
  /\ held = Held

\* C10: at most one to-linger and one to-idle timer are pending, every
\* pending timer was scheduled under the current inputs, and so was the last
\* timer that ran: a change of the inputs cancels the timers before it.
TimersCancelled ==
  /\ Cardinality({tm \in timers : tm.kind = "linger"}) <= 1
  /\ Cardinality({tm \in timers : tm.kind = "idle"}) <= 1
  /\ \A tm \in timers : tm.deps = Deps
  /\ lastFire.some => lastFire.deps = Deps

\* the inputs changed while a cycle was animating, and the to-linger timer of
\* the cycle started then has run
RescheduleWitness ==
  /\ lastFire.some
  /\ lastFire.kind = "linger"
  /\ lastFire.changed
  /\ \E tm \in timers : tm.kind = "idle" /\ tm.saw = "animating"

(***************************************************************************)
(* Properties of the page's services.                                      *)
(***************************************************************************)
\* C11: a call of handlePrint made while the guard is held changes nothing:
\* no frame, no callback, no print; and a flow starts only by a call that
\* finds the guard free, so two calls in succession start one flow.
PrintReentrancy ==
  [][ /\ (pcalls' # pcalls /\ printing) =>
           UNCHANGED << printing, tasks, listeners, frames, events, nflows, nprints >>
      /\ nflows' # nflows =>
           ~printing /\ printing' /\ nflows' = nflows + 1 /\ pcalls' = pcalls + 1 ]_vars

\* the second call came while the first flow held the guard
SecondCallWitness == pcalls = 2 /\ nflows = 1 /\ printing

\* C12: whenever the guard is held it is released later, whether or not an
\* afterprint signal is ever delivered.
GuardReleased == printing ~> ~printing

\* a desktop flow holds the guard with no callback scheduled and no signal
\* to come
GuardStuckWitness ==
  printing /\ ~constrained /\ tasks = {} /\ events = {} /\ nprints > 0

\* C13: no exception leaves a handler, whatever the store does with the
\* write; a save appends the entry and selects it, and a delete of the
\* selected entry clears the selection.
StorageTolerated ==
  [][ /\ ~uncaught'
      /\ (lastOp' = "save" /\ Len(saved') > Len(saved)) =>
           selectedId' = saved'[Len(saved')].id
      /\ (lastOp' = "delete" /\ Len(saved') < Len(saved)) =>
           (selectedId \notin SavedIds(saved') => selectedId' = NoId) ]_vars

\* an entry was saved while the store refused writes
FailedSaveWitness ==
  lastOp = "save" /\ storageFails /\ Len(saved) > Len(loadSaved(savedItem))

\* C14: a Shell constructed against an absent or malformed item raises
\* nothing; from such a settings item it takes the defaults, and from such a
\* saved-mazes item the empty list.
ReadsTolerated ==
  [][ Remount =>
        /\ ~crashed'
        /\ settingsItem \in {NoItem, NotJson, JsonNull} =>
             /\ seed' = 42 /\ width' = 19 /\ height' = 19
             /\ g' = 30 /\ b' = 15 /\ tau' = 40 /\ ~lockSize'
        /\ savedItem \in {NoItem, SavedNotJson, SavedNull} => saved' = << >> ]_vars

\* a Shell was constructed against items that do not hold JSON after another
\* Shell had left other values there
NotJsonWitness ==
  /\ lastOp = "reload"
  /\ savedItem = SavedNotJson
  /\ seed = 42
  /\ held.seed = 42
  /\ Mounted
  /\ saved = << >>

\* C15: between becoming visible and next becoming invisible the overlay
\* calls onDone at most once, whether the completion effect runs again or
\* the animation-end handler fires with autoHide set.
NotifiedOnce == notified <= 1

\* a completion timer found the guard clear a second time in one cycle
SecondNotice == notified = 2 /\ doneRef /\ ovProps.visible /\ ovMounted

\* C16: no captured prompt is replayed more than once, and install() with
\* no prompt captured changes nothing.
ReplayedOnce ==
  [][ /\ \A k \in 1..MaxSignals : replays'[k] <= 1
      /\ (ninstalls' # ninstalls /\ deferred = NoPrompt) =>
           UNCHANGED << deferred, canInstall, awaiting, replays >> ]_vars

\* install() ran a second time while its first call was still suspended on
\* the same prompt
SecondReplay == \E k \in 1..MaxSignals : replays[k] = 2 /\ deferred = k /\ awaiting # {}

\* C17: createMaze returns no result for a grid with fewer than 3 cells on
\* an axis.
SmallRejected == Returned => params.width >= 3 /\ params.height >= 3

\* createMaze returned a maze of one cell
DegenerateWitness ==
  /\ Returned
  /\ params.width = 1
  /\ params.height = 1
  /\ treeSteps = << >>
  /\ stats.L = 1

\* C18: the turn rate of every returned maze is between 0 and 1, T being
\* the number of consecutive carve steps whose directions differ over
\* L = treeSteps.length + 1.
TurnRateBounded ==
  Returned =>
    /\ stats.T.den = Len(treeSteps) + 1
    /\ 0 <= stats.T.num
    /\ stats.T.num <= stats.T.den
    /\ stats.T.num =
         Cardinality({i \in 2..Len(treeSteps) :
            << treeSteps[i - 1][3] - treeSteps[i - 1][1],
               treeSteps[i - 1][4] - treeSteps[i - 1][2] >> #
            << treeSteps[i][3] - treeSteps[i][1], treeSteps[i][4] - treeSteps[i][2] >>})

\* a returned maze whose carve turned more often than it went straight
TurnsWitness == Returned /\ 2 * stats.T.num > stats.T.den /\ stats.T.num < stats.T.den

\* C19: once the inputs stop changing the cycle runs to its end: the phase
\* does not stay in animating or in linger, it comes back to idle for good.
CycleCompletes == <>[][Deps' = Deps]_vars => <>[](phase = "idle")

\* the view sits in linger with animation enabled, steps to draw and no
\* timer left
StuckInLinger == phase = "linger" /\ timers = {} /\ enabled /\ stepsCount > 0

\* C20: while the inputs stay as they are the phase moves only from
\* animating to linger and from linger to idle.
PhaseOrder ==
  [][ (Deps' = Deps /\ phase' # phase) =>
        \/ phase = "animating" /\ phase' = "linger"
        \/ phase = "linger" /\ phase' = "idle" ]_vars

\* the view is animating and the only timer left is a to-idle timer whose
\* callback will find nothing to stop it
LingerSkipped ==
  /\ phase = "animating"
  /\ timers = {Timer("idle", 0, "linger", Deps)}

\* C30: the sweep commits b = 0: the best candidate held during the loop has
\* b = 0 at every point, and so has the triple the Shell holds after the
\* commit.
SweepCommitsZeroB ==
  /\ (swPc = "loop" /\ best.some) => best.b = 0
  /\ (lastOp = "sweep" /\ swPc = "idle") => b = 0

\* a sweep has committed a triple other than the first candidate, and the
\* candidates with the same g and tau and b > 0 scored the same D
ZeroBWitness ==
  /\ lastOp = "sweep"
  /\ swPc = "idle"
  /\ b = 0
  /\ FirstMax(swCalls) > 1
  /\ \A j \in 1..Len(swCalls) :
       (swCalls[j].p.g = g /\ swCalls[j].p.tau = tau) =>
         swCalls[j].D = swCalls[FirstMax(swCalls)].D

\* the cells not yet visited, counted twice, and the cells on the stack
DfsMeasure ==
  2 * (params.width * params.height - Cardinality(seen)) + Len(stack)

\* C27: every invocation returns.  Each iteration of the DFS loop either
\* visits one more cell and pushes it or pops the stack, the braid pass moves
\* on to the next cell at each step, and an invocation that has been entered
\* reaches its return.
Terminates ==
  /\ [][ (pc = "dfs" /\ pc' = "dfs") =>
          /\ DfsMeasure' = DfsMeasure - 1
          /\ \/ Cardinality(seen') = Cardinality(seen) + 1 /\ Len(stack') = Len(stack) + 1
             \/ seen' = seen /\ Len(stack') = Len(stack) - 1 ]_vars
  /\ [][ (pc = "braid" /\ pc' = "braid") => bk' = bk + 1 ]_vars
  /\ Running ~> Returned

\* an invocation on a grid of at least four cells has returned after
\* visiting every cell and braiding
RanToEnd ==
  /\ Returned
  /\ params.width * params.height >= 4
  /\ Cardinality(seen) = params.width * params.height
  /\ stack = << >>
  /\ Len(braidEdits) > 0

\* a generation parameter changes while animation is enabled, and the phase
\* machine goes on with the cycle of the previous maze: the phase is still
\* linger after a change of the seed alone
SeedChangedInLinger ==
  /\ nviews = 1
  /\ vparams.seed # 42
  /\ enabled
  /\ stepsCount > 0
  /\ phase = "linger"

\* C21: a render in which a generation parameter has changed while animation
\* is enabled clears the pending timers and starts a fresh cycle: the phase
\* is animating and the only timers pending are the two the effect sets.
RestartsOnParams ==
  [][ (vparams' # vparams /\ enabled /\ enabled' /\ stepsCount' > 0) =>
        /\ phase' = "animating"
        /\ timers' = RunEffect(phase, Deps').timers ]_vars

\* the view is animating and its document holds no carve path
AnimatingWithoutPath ==
  /\ phase = "animating"
  /\ enabled
  /\ stepsCount > 0
  /\ ~memo.svg.dfs.some

\* C22: the document marks its wall layer as hidden iff hideWallsDuringAnim
\* is set and the phase is animating, and holds the carve path iff the phase
\* is animating or linger.
DocumentFollowsPhase ==
  /\ memo.svg.hide <=> (hideWalls /\ phase = "animating")
  /\ memo.svg.dfs.some <=> (phase \in {"animating", "linger"})

\* the five fields of two stats are equal
StatsEqual(s1, s2) ==
  /\ s1.L = s2.L
  /\ s1.T.num * s2.T.den = s2.T.num * s1.T.den
  /\ s1.J = s2.J
  /\ s1.E = s2.E
  /\ s1.D = s2.D

\* C24: onStats is called only with stats that differ in one of L, T, J, E, D
\* from the stats last emitted and onSVGChange only with a document that
\* differs from the document last emitted, and the last emitted stats and
\* document are those of the current computation.
EmitsOnChange ==
  /\ [][ /\ statsEmits' \in {statsEmits, statsEmits + 1}
         /\ statsEmits' # statsEmits => ~StatsEqual(lastStats, memo'.stats)
         /\ svgEmits' \in {svgEmits, svgEmits + 1}
         /\ svgEmits' # svgEmits => memo'.svg # lastSvg ]_vars
  /\ [](lastSvg = memo.svg /\ StatsEqual(lastStats, memo.stats))

\* renders have emitted a new document without new stats, and new stats
EmittedBoth ==
  /\ nviews > 0
  /\ statsEmits > 1
  /\ svgEmits > statsEmits

\* every side of every cell at which a wall stands, as a segment
PresentWalls(m, W, H) ==
  { Seg(c[1], c[2], c[1] + 1, c[2]) : c \in { k \in Cells(W, H) : m[k].n = 1 } }
  \cup { Seg(c[1], c[2], c[1], c[2] + 1) : c \in { k \in Cells(W, H) : m[k].w = 1 } }
  \cup { Seg(c[1], c[2] + 1, c[1] + 1, c[2] + 1) : c \in { k \in Cells(W, H) : m[k].s = 1 } }
  \cup { Seg(c[1] + 1, c[2], c[1] + 1, c[2] + 1) : c \in { k \in Cells(W, H) : m[k].e = 1 } }

\* a wall between two cells stands on both sides or on neither
SymmetricWalls(m, W, H) ==
  \A c \in Cells(W, H) :
    /\ c[1] + 1 < W => m[c].e = m[<< c[1] + 1, c[2] >>].w
    /\ c[2] + 1 < H => m[c].s = m[<< c[1], c[2] + 1 >>].n

\* the maze the view shows
ViewGrid == mazes[vparams].maze

\* C26: for a grid with symmetric walls the lines of the document are the
\* walls that stand, each written once.
WallsDrawnOnce ==
  SymmetricWalls(ViewGrid, vparams.width, vparams.height) =>
    /\ { memo.svg.walls[i] : i \in 1..Len(memo.svg.walls) }
         = PresentWalls(ViewGrid, vparams.width, vparams.height)
    /\ \A i, j \in 1..Len(memo.svg.walls) :
         memo.svg.walls[i] = memo.svg.walls[j] => i = j

\* the view shows a braided maze of at least two rows and two columns, with
\* walls opened between cells and walls standing between cells
DrawnBraided ==
  /\ vparams.width >= 2
  /\ vparams.height >= 2
  /\ SymmetricWalls(ViewGrid, vparams.width, vparams.height)
  /\ Len(mazes[vparams].braidEdits) > 0
  /\ \E c \in Cells(vparams.width, vparams.height) : c[2] > 0 /\ ViewGrid[c].n = 1
  /\ \E c \in Cells(vparams.width, vparams.height) : c[2] > 0 /\ ViewGrid[c].n = 0

\* C29: whenever canInstall is true a captured prompt is held.
PromptHeld == canInstall => deferred # NoPrompt

\* a second signal arrived while install() was suspended, and install() has
\* since run to its end: the affordance is shown and no prompt is held
ShownWithoutPrompt ==
  /\ canInstall
  /\ deferred = NoPrompt
  /\ nsignals = 2
  /\ awaiting = {}
  /\ replays[1] = 1
  /\ replays[2] = 0

\* C23: while the lock-size toggle is enabled, height equals width.
LockedSquare == lockSize => height = width

\* the lock was enabled on a grid that is not square
LockedNotSquare ==
  /\ lockSize
  /\ height # width
  /\ lastOp = "edit"

\* the six current maze parameters
SixCurrent == << width, height, seed, g, b, tau >>

\* the list without its i-th entry, the others in their order
DropAt(list, i) ==
  [j \in 1..(Len(list) - 1) |-> IF j < i THEN list[j] ELSE list[j + 1]]

InProgress ==
  {tk.flow : tk \in {k \in tasks : k.kind \in {"raf", "onload"}}} \cup listeners

\* the flows whose callback ran in a step: the flows of the tasks taken off
\* the schedule and of the listeners called
Acted(ts, ls) == {tk.flow : tk \in ts} \cup ls

\* C28: at most one print flow is in progress at any time, and a step that
\* releases the guard runs a callback of the flow that acquired it last.
OneFlowAtATime ==
  /\ [](Cardinality(InProgress) <= 1)
  /\ [][ (printing /\ ~printing') =>
           Acted(tasks \ tasks', listeners \ listeners') = {nflows} ]_vars

\* the fallback timer of the first flow has released the guard of the second,
\* and a third flow has started beside the second
TwoFlows ==
  /\ constrained
  /\ printing
  /\ nflows = 3
  /\ Task("fallback", 1) \notin tasks
  /\ {2, 3} \subseteq InProgress

====
